---- MODULE Spec2Model ----
(***************************************************************************)
(* LEAP sequential orchestrator (src/leap_agent/orchestrator.py) and the   *)
(* Ollama adapter it drives (src/leap_agent/inference.py).                 *)
(*                                                                         *)
(* Texts.  A Python str is modelled as a sequence of tokens.  A token is   *)
(* either one special character ("{", "}", "[", "]", ":", ",", the double  *)
(* quote, "<", ">", "/", the backquote, a blank, a newline, a digit) or a word: a    *)
(* maximal run of letters / underscores that is kept atomic.  The text a   *)
(* sequence stands for is the concatenation of its tokens.  Conventions    *)
(* that keep the token view exact for the code below: two words are never  *)
(* adjacent, no word other than "json" starts with "json", the JSON        *)
(* literals are the words "null", "true", "false", and the backslash, the  *)
(* minus sign, the dot and exponents do not occur in model replies.        *)
(***************************************************************************)
EXTENDS Integers, Sequences, FiniteSets, TLC

(***************************************************************************)
(* Python values.  Every value is a record [t, v]: the tag t is compared   *)
(* first, so values of different Python types are simply unequal.          *)
(***************************************************************************)
PyNone == [t |-> "None", v |-> <<>>]
PyBool(b) == [t |-> "bool", v |-> <<b>>]
PyInt(digits) == [t |-> "int", v |-> digits]
PyStr(text) == [t |-> "str", v |-> text]
PyList(items) == [t |-> "list", v |-> items]
PyDict(map) == [t |-> "dict", v |-> map]
\* a Python object json cannot serialize (a function, a set, a complex number)
PyObject(name) == [t |-> "object", v |-> <<name>>]

EmptyMap == [k \in {} |-> PyNone]
MapPut(map, key, val) ==
    [k \in (DOMAIN map) \cup {key} |-> IF k = key THEN val ELSE map[k]]

isinstance_dict(x) == x.t = "dict"
isinstance_str(x) == x.t = "str"

\* key in d, for a dict d and a str key given as its text
HasKey(d, key) == key \in DOMAIN d.v
\* d.get(key, default)
DictGet(d, key, default) == IF key \in DOMAIN d.v THEN d.v[key] ELSE default

\* Python truth value (bool(x)) of a value
Truthy(x) ==
    CASE x.t = "None" -> FALSE
      [] x.t = "bool" -> x.v = <<"true">>
      [] x.t = "int" -> x.v # <<"0">>
      [] x.t = "str" -> x.v # <<>>
      [] x.t = "list" -> x.v # <<>>
      [] x.t = "dict" -> DOMAIN x.v # {}
      [] OTHER -> TRUE

\* hash(x) succeeds: list and dict values are unhashable (TypeError)
Hashable(x) == x.t \notin {"list", "dict"}

(***************************************************************************)
(* Characters and regular expressions                                      *)
(***************************************************************************)
Whitespace == {" ", "\n"}
Digits == {"0", "1", "2", "3", "4", "5", "6", "7", "8", "9"}
THINK_OPEN == <<"<", "think", ">">>
THINK_CLOSE == <<"<", "/", "think", ">">>
\* the token of the backquote character (U+0060)
BQ == "bq"
FENCE == <<BQ, BQ, BQ>>
FENCE_JSON == <<BQ, BQ, BQ, "json">>

\* s[i:].startswith(p)
StartsWithAt(s, i, p) ==
    /\ i + Len(p) - 1 <= Len(s)
    /\ \A k \in 1..Len(p) : s[i + k - 1] = p[k]

\* index of the first occurrence of p at or after i, 0 if there is none
FindFrom(s, i, p) ==
    LET hits == {j \in i..Len(s) : StartsWithAt(s, j, p)}
    IN  IF hits = {} THEN 0 ELSE CHOOSE j \in hits : \A h \in hits : j <= h

\* first index at or after i that holds no whitespace (Len(s)+1 at the end)
SkipWs(s, i) ==
    LET rest == {j \in i..Len(s) : s[j] \notin Whitespace}
    IN  IF rest = {} THEN Len(s) + 1
        ELSE CHOOSE j \in rest : \A h \in rest : j <= h

\* re.sub(r'<think>.*?</think>', '', s, flags=re.DOTALL), scanning from i
RECURSIVE StripThinkFrom(_, _)
StripThinkFrom(s, i) ==
    IF i > Len(s) THEN <<>>
    ELSE LET close == IF StartsWithAt(s, i, THINK_OPEN)
                      THEN FindFrom(s, i + Len(THINK_OPEN), THINK_CLOSE)
                      ELSE 0
         IN  IF close # 0
             THEN StripThinkFrom(s, close + Len(THINK_CLOSE))
             ELSE <<s[i]>> \o StripThinkFrom(s, i + 1)

StripThink(s) == StripThinkFrom(s, 1)

\* re.sub(fence + r'\s*', '', s), scanning from i
RECURSIVE StripFenceFrom(_, _, _)
StripFenceFrom(s, i, fence) ==
    IF i > Len(s) THEN <<>>
    ELSE IF StartsWithAt(s, i, fence)
         THEN StripFenceFrom(s, SkipWs(s, i + Len(fence)), fence)
         ELSE <<s[i]>> \o StripFenceFrom(s, i + 1, fence)

\* str.strip()
Strip(s) ==
    LET keep == {j \in 1..Len(s) : s[j] \notin Whitespace}
    IN  IF keep = {} THEN <<>>
        ELSE SubSeq(s, CHOOSE j \in keep : \A h \in keep : j <= h,
                       CHOOSE j \in keep : \A h \in keep : j >= h)

(***************************************************************************)
(* json.loads: the recursive-descent scanner of the json module.  A parse  *)
(* result is [ok, val, pos]: pos is the index after the value.             *)
(***************************************************************************)
ParseFail == [ok |-> FALSE, val |-> PyNone, pos |-> 0]
ParseOk(val, pos) == [ok |-> TRUE, val |-> val, pos |-> pos]

\* py_scanstring, strict: the text up to the next quote, no control characters
scanstring(s, i) ==
    LET q == FindFrom(s, i, <<"\"">>)
    IN  IF q = 0 \/ \E j \in i..(q - 1) : s[j] = "\n"
        THEN ParseFail
        ELSE ParseOk(PyStr(SubSeq(s, i, q - 1)), q + 1)

\* the NUMBER_RE match at i: a 0, or a run of digits that does not start with 0
NumberEnd(s, i) ==
    IF s[i] = "0" THEN i + 1
    ELSE LET stop == {j \in i..Len(s) : s[j] \notin Digits}
         IN  IF stop = {} THEN Len(s) + 1
             ELSE CHOOSE j \in stop : \A h \in stop : j <= h

\* the int from i up to stop
JSONNumber(s, i, stop) == ParseOk(PyInt(SubSeq(s, i, stop - 1)), stop)

RECURSIVE scan_once(_, _)
RECURSIVE JSONObjectMembers(_, _, _)
RECURSIVE JSONArrayItems(_, _, _)

\* JSONObject after a pair: e is the index of the next non-blank
JSONObjectNext(s, e, pairs) ==
    IF e > Len(s) THEN ParseFail
    ELSE IF s[e] = "}" THEN ParseOk(PyDict(pairs), e + 1)
    ELSE IF s[e] = "," THEN JSONObjectMembers(s, SkipWs(s, e + 1), pairs)
    ELSE ParseFail

\* JSONObject after the value of a pair
JSONObjectValue(s, key, val, acc) ==
    IF ~val.ok THEN ParseFail
    ELSE JSONObjectNext(s, SkipWs(s, val.pos), MapPut(acc, key.val.v, val.val))

\* JSONObject after a key: colon is the index of the next non-blank
JSONObjectColon(s, key, colon, acc) ==
    IF colon > Len(s) \/ s[colon] # ":" THEN ParseFail
    ELSE JSONObjectValue(s, key, scan_once(s, SkipWs(s, colon + 1)), acc)

\* JSONObject after the key of a pair
JSONObjectKey(s, key, acc) ==
    IF ~key.ok THEN ParseFail
    ELSE JSONObjectColon(s, key, SkipWs(s, key.pos), acc)

\* JSONObject at the opening quote of a key: "key": value (, ...)* }
JSONObjectMembers(s, i, acc) ==
    IF i > Len(s) \/ s[i] # "\"" THEN ParseFail
    ELSE JSONObjectKey(s, scanstring(s, i + 1), acc)

\* JSONObject: i is the index after "{"
JSONObjectAt(s, first) ==
    IF first <= Len(s) /\ s[first] = "}"
    THEN ParseOk(PyDict(EmptyMap), first + 1)
    ELSE JSONObjectMembers(s, first, EmptyMap)

JSONObject(s, i) == JSONObjectAt(s, SkipWs(s, i))

\* JSONArray after an item: e is the index of the next non-blank
JSONArrayNext(s, e, items) ==
    IF e > Len(s) THEN ParseFail
    ELSE IF s[e] = "]" THEN ParseOk(PyList(items), e + 1)
    ELSE IF s[e] = "," THEN JSONArrayItems(s, SkipWs(s, e + 1), items)
    ELSE ParseFail

\* JSONArray after the value of an item
JSONArrayValue(s, val, acc) ==
    IF ~val.ok THEN ParseFail
    ELSE JSONArrayNext(s, SkipWs(s, val.pos), Append(acc, val.val))

\* JSONArray after "[" and at every later item
JSONArrayItems(s, i, acc) == JSONArrayValue(s, scan_once(s, i), acc)

\* JSONArray: i is the index after "["
JSONArrayAt(s, first) ==
    IF first <= Len(s) /\ s[first] = "]"
    THEN ParseOk(PyList(<<>>), first + 1)
    ELSE JSONArrayItems(s, first, <<>>)

JSONArray(s, i) == JSONArrayAt(s, SkipWs(s, i))

scan_once(s, i) ==
    IF i > Len(s) THEN ParseFail
    ELSE CASE s[i] = "\"" -> scanstring(s, i + 1)
           [] s[i] = "{" -> JSONObject(s, i + 1)
           [] s[i] = "[" -> JSONArray(s, i + 1)
           [] s[i] = "null" -> ParseOk(PyNone, i + 1)
           [] s[i] \in {"true", "false"} -> ParseOk(PyBool(s[i]), i + 1)
           [] s[i] \in Digits -> JSONNumber(s, i, NumberEnd(s, i))
           [] OTHER -> ParseFail

\* json.loads(s): ok = FALSE stands for json.JSONDecodeError
\* raw_decode, then nothing but whitespace up to the end
JSONDecoded(s, r) ==
    IF r.ok /\ SkipWs(s, r.pos) = Len(s) + 1 THEN r ELSE ParseFail

json_loads(s) == JSONDecoded(s, scan_once(s, SkipWs(s, 1)))

(***************************************************************************)
(* LEAPOrchestrator._parse_tool_request                                    *)
(***************************************************************************)
\* the depth of the brace nesting after s[start..i]
RECURSIVE BraceDepth(_, _, _)
BraceDepth(s, start, i) ==
    IF i < start THEN 0
    ELSE BraceDepth(s, start, i - 1)
         + (CASE s[i] = "{" -> 1 [] s[i] = "}" -> -1 [] OTHER -> 0)

\* extract_json_object: [found, text]
BalancedEnds(text, start) ==
    IF start = 0 THEN {}
    ELSE {i \in start..Len(text) : text[i] = "}" /\ BraceDepth(text, start, i) = 0}

BalancedSpan(text, start, ends) ==
    IF ends = {} THEN [found |-> FALSE, text |-> <<>>]
    ELSE [found |-> TRUE,
          text |-> SubSeq(text, start, CHOOSE i \in ends : \A h \in ends : i <= h)]

ExtractFrom(text, start) == BalancedSpan(text, start, BalancedEnds(text, start))

extract_json_object(text) == ExtractFrom(text, FindFrom(text, 1, <<"{">>))

\* the tool key of a reply's JSON
KEY_TOOL == <<"tool">>
KEY_PARAMS == <<"params">>
KEY_FILTER == <<"filter">>

\* the `if isinstance(parsed, dict) and 'tool' in parsed` block:
\* [ret |-> the block returned, val |-> what it returned]
InterpretParsed(r) ==
    IF r.ok /\ isinstance_dict(r.val) /\ HasKey(r.val, KEY_TOOL)
    THEN IF r.val.v[KEY_TOOL] = PyNone \/ r.val.v[KEY_TOOL] = PyStr(<<"null">>)
         THEN [ret |-> TRUE, val |-> PyNone]
         ELSE [ret |-> TRUE, val |-> r.val]
    ELSE [ret |-> FALSE, val |-> PyNone]

CleanReply(response) ==
    Strip(StripFenceFrom(StripFenceFrom(StripThink(response), 1, FENCE_JSON), 1, FENCE))

\* lines 265-274: the second attempt, on the balanced span
ParseBalanced(json_str) ==
    IF json_str.found THEN InterpretParsed(json_loads(json_str.text))
    ELSE [ret |-> FALSE, val |-> PyNone]

\* lines 240-276 with the results of the two attempts
ParseResult(direct, second, otherwise) ==
    IF direct.ret THEN direct.val
    ELSE IF second.ret THEN second.val
    ELSE otherwise

ParseCleaned(cleaned, otherwise) ==
    ParseResult(InterpretParsed(json_loads(cleaned)),
                ParseBalanced(extract_json_object(cleaned)), otherwise)

\* a parser that answers an empty request where it recovers none
parse_tool_request_empty(response) ==
    ParseCleaned(CleanReply(response), PyDict(EmptyMap))

\* _parse_tool_request
parse_tool_request(response) == ParseCleaned(CleanReply(response), PyNone)

(***************************************************************************)
(* len(), json.dumps and str()                                             *)
(***************************************************************************)
\* the number of characters of the words of the model (any other token is one
\* character); "lorem" stands for a run of 600 letters
WordLength ==
    [w \in {"int"} |-> 3]
    @@ [w \in {"json", "tool", "null", "true", "True", "None", "size", "path",
             "done", "sure", "type", "boom", "sqrt"} |-> 4]
    @@ [w \in {"think", "false", "False", "error", "sorry", "lines"} |-> 5]
    @@ [w \in {"params", "filter", "result", "answer"} |-> 6]
    @@ [w \in {"content", "Unknown", "summary", "missing", "builtin"} |-> 7]
    @@ [w \in {"read_file", "calculate"} |-> 9]
    @@ [w \in {"expression"} |-> 10]
    @@ [w \in {"does_not_exist"} |-> 14]
    @@ [w \in {"lorem"} |-> 600]
    @@ [w \in {"bq"} |-> 1]
    \* the names and descriptions of the catalogue and its heading
    @@ [w \in {"file_info", "fetch_url", "grep_code"} |-> 9]
    @@ [w \in {"write_file", "web_search", "parse_json"} |-> 10]
    @@ [w \in {"news_search"} |-> 11]
    @@ [w \in {"search_files", "analyze_code"} |-> 12]
    @@ [w \in {"get_shell_env", "crawl_webpage"} |-> 13]
    @@ [w \in {"insert_in_file", "list_directory", "Search the web"} |-> 14]
    @@ [w \in {"replace_in_file", "find_definition", "read_definition"} |-> 15]
    @@ [w \in {"Available tools:", "get_current_time"} |-> 16]
    @@ [w \in {"Get file metadata", "run_shell_command", "Parse/format JSON"} |-> 17]
    @@ [w \in {"Read file contents", "Search recent news", "replace_definition"} |-> 18]
    @@ [w \in {"Replace text in file"} |-> 20]
    @@ [w \in {"Find files by pattern", "Execute shell command",
             "Fetch webpage content", "Get current date/time"} |-> 21]
    @@ [w \in {"List directory contents"} |-> 23]
    @@ [w \in {"Evaluate math expression"} |-> 24]
    @@ [w \in {"Insert text/lines in file", "Find definition of symbol"} |-> 25]
    @@ [w \in {"Crawl and extract from URL"} |-> 26]
    @@ [w \in {"Get system environment info"} |-> 27]
    @@ [w \in {"Search pattern in code files"} |-> 28]
    @@ [w \in {"Analyze Python file structure", "Read source of function/class"} |-> 29]
    @@ [w \in {"Replace source of function/class"} |-> 32]
    @@ [w \in {"Write content to file (overwrite)"} |-> 33]

CharLen(tok) == IF tok \in DOMAIN WordLength THEN WordLength[tok] ELSE 1

\* len(text)
\* the characters of text[lo..hi], summed by halves
RECURSIVE PyLenBetween(_, _, _)
PyLenBetween(text, lo, hi) ==
    IF lo > hi THEN 0
    ELSE IF lo = hi THEN CharLen(text[lo])
    ELSE PyLenBetween(text, lo, (lo + hi) \div 2)
         + PyLenBetween(text, (lo + hi) \div 2 + 1, hi)

PyLen(text) == PyLenBetween(text, 1, Len(text))

\* text[:n]; the texts of the model are cut between two tokens
RECURSIVE TruncateFrom(_, _, _)
TruncateFrom(text, i, n) ==
    IF i > Len(text) \/ CharLen(text[i]) > n THEN <<>>
    ELSE <<text[i]>> \o TruncateFrom(text, i + 1, n - CharLen(text[i]))

Truncate(text, n) == TruncateFrom(text, 1, n)

\* json.dumps raises TypeError on a value that holds a non-JSON object
RECURSIVE Serializable(_)
Serializable(x) ==
    CASE x.t = "object" -> FALSE
      [] x.t = "list" -> \A i \in 1..Len(x.v) : Serializable(x.v[i])
      [] x.t = "dict" -> \A k \in DOMAIN x.v : Serializable(x.v[k])
      [] OTHER -> TRUE

\* the escapes json.dumps writes inside a string
RECURSIVE EscapeFrom(_, _)
EscapeFrom(text, i) ==
    IF i > Len(text) THEN <<>>
    ELSE (CASE text[i] = "\"" -> <<"\\", "\"">>
            [] text[i] = "\n" -> <<"\\", "n">>
            [] OTHER -> <<text[i]>>) \o EscapeFrom(text, i + 1)

RECURSIVE json_dumps(_)
RECURSIVE DumpsItems(_, _)
RECURSIVE DumpsMembers(_, _, _)

DumpsItems(items, i) ==
    IF i > Len(items) THEN <<>>
    ELSE (IF i > 1 THEN <<",", " ">> ELSE <<>>)
         \o json_dumps(items[i]) \o DumpsItems(items, i + 1)

\* the members of a dict; the keys are written in a fixed order
DumpsMembers(map, keys, first) ==
    IF keys = {} THEN <<>>
    ELSE LET k == CHOOSE k \in keys : TRUE
         IN  (IF first THEN <<>> ELSE <<",", " ">>)
             \o <<"\"">> \o EscapeFrom(k, 1) \o <<"\"", ":", " ">>
             \o json_dumps(map[k]) \o DumpsMembers(map, keys \ {k}, FALSE)

\* json.dumps(x) of a serializable value, default separators
json_dumps(x) ==
    CASE x.t = "None" -> <<"null">>
      [] x.t = "bool" -> x.v
      [] x.t = "int" -> x.v
      [] x.t = "str" -> <<"\"">> \o EscapeFrom(x.v, 1) \o <<"\"">>
      [] x.t = "list" -> <<"[">> \o DumpsItems(x.v, 1) \o <<"]">>
      [] x.t = "dict" -> <<"{">> \o DumpsMembers(x.v, DOMAIN x.v, TRUE) \o <<"}">>

\* "\n" followed by the indentation of nesting depth `level` (indent=2)
RECURSIVE Blanks(_)
Blanks(n) == IF n <= 0 THEN <<>> ELSE <<" ">> \o Blanks(n - 1)

NewlineIndent(level) == <<"\n">> \o Blanks(2 * level)

\* json.dumps(x, indent=2), x nested `level` deep
RECURSIVE json_dumps_indent(_, _)
RECURSIVE IndentItems(_, _, _)
RECURSIVE IndentMembers(_, _, _, _)

IndentItems(items, i, level) ==
    IF i > Len(items) THEN <<>>
    ELSE (IF i > 1 THEN <<",">> ELSE <<>>) \o NewlineIndent(level)
         \o json_dumps_indent(items[i], level) \o IndentItems(items, i + 1, level)

IndentMembers(map, keys, first, level) ==
    IF keys = {} THEN <<>>
    ELSE LET k == CHOOSE k \in keys : TRUE
         IN  (IF first THEN <<>> ELSE <<",">>) \o NewlineIndent(level)
             \o <<"\"">> \o EscapeFrom(k, 1) \o <<"\"", ":", " ">>
             \o json_dumps_indent(map[k], level)
             \o IndentMembers(map, keys \ {k}, FALSE, level)

json_dumps_indent(x, level) ==
    CASE x.t = "list" /\ x.v # <<>> ->
            <<"[">> \o IndentItems(x.v, 1, level + 1)
            \o NewlineIndent(level) \o <<"]">>
      [] x.t = "dict" /\ DOMAIN x.v # {} ->
            <<"{">> \o IndentMembers(x.v, DOMAIN x.v, TRUE, level + 1)
            \o NewlineIndent(level) \o <<"}">>
      [] OTHER -> json_dumps(x)

\* str(x) / repr(x)
RECURSIVE PyRepr(_)
RECURSIVE ReprItems(_, _)
RECURSIVE ReprMembers(_, _, _)

ReprItems(items, i) ==
    IF i > Len(items) THEN <<>>
    ELSE (IF i > 1 THEN <<",", " ">> ELSE <<>>)
         \o PyRepr(items[i]) \o ReprItems(items, i + 1)

ReprMembers(map, keys, first) ==
    IF keys = {} THEN <<>>
    ELSE LET k == CHOOSE k \in keys : TRUE
         IN  (IF first THEN <<>> ELSE <<",", " ">>)
             \o <<"'">> \o k \o <<"'", ":", " ">>
             \o PyRepr(map[k]) \o ReprMembers(map, keys \ {k}, FALSE)

PyRepr(x) ==
    CASE x.t = "None" -> <<"None">>
      [] x.t = "bool" -> IF x.v = <<"true">> THEN <<"True">> ELSE <<"False">>
      [] x.t = "int" -> x.v
      [] x.t = "str" -> <<"'">> \o x.v \o <<"'">>
      [] x.t = "list" -> <<"[">> \o ReprItems(x.v, 1) \o <<"]">>
      [] x.t = "dict" -> <<"{">> \o ReprMembers(x.v, DOMAIN x.v, TRUE) \o <<"}">>
      [] x.t = "object" -> <<"<">> \o x.v \o <<">">>

str(x) == IF x.t = "str" THEN x.v ELSE PyRepr(x)

(***************************************************************************)
(* Configuration (LEAPConfig), tool table and catalogue                    *)
(***************************************************************************)
main_model == "qwen3:1.7b"
sub_model == "gemma3:1b"
main_temperature == "0.3"
sub_temperature == "0.0"

\* catalogue.TOOL_CATALOGUE, in insertion order; a description is one token
TOOL_CATALOGUE ==
    << <<"read_file", "Read file contents">>,
       <<"write_file", "Write content to file (overwrite)">>,
       <<"replace_in_file", "Replace text in file">>,
       <<"insert_in_file", "Insert text/lines in file">>,
       <<"list_directory", "List directory contents">>,
       <<"search_files", "Find files by pattern">>,
       <<"file_info", "Get file metadata">>,
       <<"run_shell_command", "Execute shell command">>,
       <<"get_shell_env", "Get system environment info">>,
       <<"web_search", "Search the web">>,
       <<"news_search", "Search recent news">>,
       <<"fetch_url", "Fetch webpage content">>,
       <<"crawl_webpage", "Crawl and extract from URL">>,
       <<"analyze_code", "Analyze Python file structure">>,
       <<"grep_code", "Search pattern in code files">>,
       <<"find_definition", "Find definition of symbol">>,
       <<"read_definition", "Read source of function/class">>,
       <<"replace_definition", "Replace source of function/class">>,
       <<"calculate", "Evaluate math expression">>,
       <<"get_current_time", "Get current date/time">>,
       <<"parse_json", "Parse/format JSON">> >>

RECURSIVE CatalogueLines(_)
CatalogueLines(i) ==
    IF i > Len(TOOL_CATALOGUE) THEN <<>>
    ELSE <<"\n", " ", " ", TOOL_CATALOGUE[i][1], ":", " ", TOOL_CATALOGUE[i][2]>>
         \o CatalogueLines(i + 1)

get_catalogue_prompt == <<"Available tools:">> \o CatalogueLines(1)

\* an estimate that counts the lines of the catalogue
get_catalogue_tokens_by_line == Len(TOOL_CATALOGUE) + 1

\* get_catalogue_tokens: len(text) // 4
get_catalogue_tokens == PyLen(get_catalogue_prompt) \div 4

\* the keys of LEAPOrchestrator.tools (_load_tools), each key as its text
load_tools ==
    { <<"read_file">>, <<"write_file">>, <<"replace_in_file">>,
      <<"insert_in_file">>, <<"list_directory">>, <<"search_files">>,
      <<"file_info">>, <<"run_shell_command">>, <<"get_shell_env">>,
      <<"web_search">>, <<"news_search">>, <<"fetch_url">>, <<"crawl_webpage">>,
      <<"analyze_code">>, <<"grep_code">>, <<"find_definition">>,
      <<"read_definition">>, <<"replace_definition">>, <<"calculate">>,
      <<"get_current_time">>, <<"parse_json">> }

\* a table that claims to hold every name
InToolsAlways(tool_name) == TRUE

\* `tool_name in self.tools`, for a hashable tool_name
InTools(tool_name) == tool_name.t = "str" /\ tool_name.v \in load_tools

SENTINEL == <<"No", " ", "actions", " ", "taken", " ", "yet", ".">>

(***************************************************************************)
(* The environment: what the models reply and what the tools return        *)
(***************************************************************************)
\* {"tool": "calculate", "params": {"expression": "1"}}
REPLY_CALCULATE ==
    <<"{", "\"", "tool", "\"", ":", " ", "\"", "calculate", "\"", ",", " ",
      "\"", "params", "\"", ":", " ", "{", "\"", "expression", "\"", ":",
      " ", "\"", "1", "\"", "}", "}">>
\* sure:\n```json\n{"tool": "read_file", "params": {"path": "a"}, "filter": ["content"]}\n```
REPLY_READ_FENCED ==
    <<"sure", ":", "\n", BQ, BQ, BQ, "json", "\n", "{", "\"", "tool", "\"",
      ":", " ", "\"", "read_file", "\"", ",", " ", "\"", "params", "\"",
      ":", " ", "{", "\"", "path", "\"", ":", " ", "\"", "a", "\"", "}",
      ",", " ", "\"", "filter", "\"", ":", " ", "[", "\"", "content", "\"",
      "]", "}", "\n", BQ, BQ, BQ>>
\* {"tool": null}
REPLY_FINISH ==
    <<"{", "\"", "tool", "\"", ":", " ", "null", "}">>
\* <think>{"tool": "calculate"}</think>{"tool": "null"}
REPLY_FINISH_THINK ==
    <<"<", "think", ">", "{", "\"", "tool", "\"", ":", " ", "\"",
      "calculate", "\"", "}", "<", "/", "think", ">", "{", "\"", "tool",
      "\"", ":", " ", "\"", "null", "\"", "}">>
\* done
REPLY_PROSE ==
    <<"done">>
\* {"params": {}}
REPLY_NO_TOOL_KEY ==
    <<"{", "\"", "params", "\"", ":", " ", "{", "}", "}">>
\* {"tool": "does_not_exist"}
REPLY_UNKNOWN ==
    <<"{", "\"", "tool", "\"", ":", " ", "\"", "does_not_exist", "\"", "}">>
\* {"tool": ["calculate"]}
REPLY_TOOL_LIST ==
    <<"{", "\"", "tool", "\"", ":", " ", "[", "\"", "calculate", "\"", "]",
      "}">>
\* {"tool": "calculate", "params": ["x"]}
REPLY_PARAMS_LIST ==
    <<"{", "\"", "tool", "\"", ":", " ", "\"", "calculate", "\"", ",", " ",
      "\"", "params", "\"", ":", " ", "[", "\"", "x", "\"", "]", "}">>
\* {"tool": "read_file", "params": {"path": "a"}, "filter": 5}
REPLY_FILTER_INT ==
    <<"{", "\"", "tool", "\"", ":", " ", "\"", "read_file", "\"", ",", " ",
      "\"", "params", "\"", ":", " ", "{", "\"", "path", "\"", ":", " ",
      "\"", "a", "\"", "}", ",", " ", "\"", "filter", "\"", ":", " ", "5",
      "}">>

\* {"tool": "read_file", "params": {"path": "a"}, "filter": ["lines"]}
REPLY_FILTER_ABSENT ==
    <<"{", "\"", "tool", "\"", ":", " ", "\"", "read_file", "\"", ",", " ",
      "\"", "params", "\"", ":", " ", "{", "\"", "path", "\"", ":", " ",
      "\"", "a", "\"", "}", ",", " ", "\"", "filter", "\"", ":", " ", "[",
      "\"", "lines", "\"", "]", "}">>

\* {"tool": "calculate"   (the reply stops at the token limit)
REPLY_CUT_OFF ==
    <<"{", "\"", "tool", "\"", ":", " ", "\"", "calculate", "\"">>

\* the replies of the main model to a planning prompt
PlannerReplies ==
    { REPLY_CALCULATE, REPLY_READ_FENCED, REPLY_FINISH, REPLY_FINISH_THINK,
      REPLY_PROSE, REPLY_NO_TOOL_KEY, REPLY_CUT_OFF, REPLY_UNKNOWN,
      REPLY_TOOL_LIST, REPLY_PARAMS_LIST, REPLY_FILTER_INT,
      REPLY_FILTER_ABSENT }

\* calculate("1")
CALC_OK ==
    PyDict((<<"expression">> :> PyStr(<<"1">>)) @@ (<<"result">> :> PyInt(<<"1">>))
           @@ (<<"type">> :> PyStr(<<"int">>)))
\* calculate("sqrt"): eval returns the function object
CALC_OBJECT ==
    PyDict((<<"expression">> :> PyStr(<<"sqrt">>))
           @@ (<<"result">> :> PyObject("sqrt"))
           @@ (<<"type">> :> PyStr(<<"builtin">>)))
\* read_file of a file of 600 characters
READ_BIG ==
    PyDict((<<"content">> :> PyStr(<<"lorem">>))
           @@ (<<"size">> :> PyInt(<<"6", "0", "0">>))
           @@ (<<"path">> :> PyStr(<<"a">>)))
\* read_file of a missing file
READ_ERROR ==
    PyDict((<<"error">> :> PyStr(<<"missing">>)) @@ (<<"path">> :> PyStr(<<"a">>)))

\* what the callable of a registered tool can return
ToolReturns(tool_name) ==
    IF tool_name = PyStr(<<"calculate">>) THEN {CALC_OK, CALC_OBJECT}
    ELSE {READ_BIG, READ_ERROR}

\* str(e) of an exception raised inside a tool callable
ToolExceptions == { <<"boom">> }

\* str(e) of the TypeError of tool_func(**params) for params that is no mapping
PARAMS_TYPE_ERROR ==
    <<"argument", " ", "after", " ", "*", "*", " ", "must", " ", "be", " ", "a",
      " ", "mapping">>

\* the replies of the sub model to a filter prompt
FILTER_JSON == <<"{", "\"", "content", "\"", ":", " ", "\"", "x", "\"", "}">>
FILTER_PROSE == <<"sorry">>
FILTER_LIST_THINK == THINK_OPEN \o <<"x">> \o THINK_CLOSE \o <<"[", "\"", "x", "\"", "]">>
\* {content}: a bracketed span that is no JSON
FILTER_BAD_SPAN == <<"{", "content", "}">>
\* the last member: {"content": "x"} [done], an object and a bracketed remark
FilterReplies ==
    {FILTER_JSON, FILTER_PROSE, FILTER_BAD_SPAN, FILTER_LIST_THINK,
     FILTER_JSON \o <<" ", "[", "done", "]">>}

\* the replies of the main model to a state-update prompt
SUMMARY_1 == <<"summary", " ", "1">>
SUMMARY_2 == <<"summary", " ", "2">>
UpdateReplies ==
    { THINK_OPEN \o <<"x">> \o THINK_CLOSE \o <<" ">> \o SUMMARY_1 \o <<"\n">>,
      SUMMARY_2 }

\* the replies of the main model to a final-answer prompt
FinalReplies == { <<"answer">> }

\* the replies of the main model to a direct-response prompt
DIRECT_LONG == <<"answer", " ", "lorem">>
DIRECT_SHORT == <<"done">>
DIRECT_THINK_ONLY == THINK_OPEN \o DIRECT_LONG \o THINK_CLOSE
\* the last two members have 9 and 10 characters
DirectReplies ==
    {DIRECT_LONG, DIRECT_SHORT, DIRECT_THINK_ONLY,
     <<" ", "calculate", "\n">>, <<"expression">>}

Queries == { <<"q", "1">>, <<"q", "2">> }

(***************************************************************************)
(* The state of an orchestrator and of the run in progress                 *)
(***************************************************************************)
\* bounds of the model
MaxTurns == 2
MaxRuns == 1
MaxChunks == 2
MaxTasks == 2
TaskTurns == 1

VARIABLES
    pc,                 \* where run() stands
    query, max_turns,   \* the arguments of the run in progress
    current_turn,       \* run(): current_turn
    tool_request,       \* run(): tool_request
    raw_result,         \* _phase2_execution: raw_result
    filtered_response,  \* run(): filtered_response
    state_summary,      \* self.state_summary
    metrics,            \* self.metrics (OrchestrationMetrics)
    current_model,      \* self.inference.current_model
    config,             \* self.config
    call,               \* the generation request in flight
    outcome,            \* how the last run ended
    answer,             \* the text the last run returned
    raised,             \* the exception type the last run raised
    runs,               \* history: runs started on this orchestrator
    calls,              \* history: calls made by the current run, by kind
                        \*   (unknown: planning replies naming an unknown tool)
    plan_reply,         \* history: the planning reply just received (one step)
    first_plan,         \* history: what the first planning call of the run gave
    exec_event,         \* history: what the execution phase of the turn met
    in_progress,        \* history: the phases entered and not yet left
    last_update,        \* history: the output of the run's latest state update
    parser,             \* a direct call of _parse_tool_request: text and result
    adapter,            \* a direct call of OllamaInference.generate
    second              \* a second run() invocation on the same orchestrator

\* the orchestrator and the run in progress
inside ==
    <<pc, query, max_turns, current_turn, tool_request, raw_result,
      filtered_response, state_summary, metrics, current_model, config, call,
      outcome, answer, raised, runs, calls, plan_reply, first_plan, exec_event,
      in_progress, last_update>>

\* what the run in progress does not touch
outside == <<parser, adapter, second>>

vars == <<inside, outside>>

(***************************************************************************)
(* Prompts and generation requests.  A prompt is the f-string template it  *)
(* is built from and the values interpolated into it, in order.            *)
(***************************************************************************)
Prompt(template, args) == [template |-> template, args |-> args]

GenerateCall(model, prompt, temperature, max_tokens) ==
    [model |-> model, prompt |-> prompt, temperature |-> temperature,
     max_tokens |-> max_tokens]

NoCall == GenerateCall("", Prompt("", <<>>), "", 0)

\* a planning request that also carries the name of the tool used last
phase1_planning_call_with_tool(q, summary) ==
    GenerateCall(main_model,
                 Prompt("planning",
                        <<get_catalogue_prompt, q, summary, str(metrics.tool_name)>>),
                 "0.5", 300)

\* _phase1_planning: the generation request
phase1_planning_call(q, summary) ==
    GenerateCall(main_model,
                 Prompt("planning", <<get_catalogue_prompt, q, summary>>),
                 "0.5", 300)

\* _generate_final_answer: the generation request
generate_final_answer_call(q, summary) ==
    GenerateCall(main_model, Prompt("final_answer", <<q, summary>>),
                 main_temperature, 1024)

\* _phase3_update_state: the generation request
phase3_update_state_call(q, summary, request, tool_result) ==
    GenerateCall(main_model,
                 Prompt("update_state",
                        <<q, summary, str(DictGet(request, KEY_TOOL, PyNone)),
                          Truncate(tool_result, 1000)>>),
                 "0.5", 512)

\* a filter request sent to the main model
filter_response_call_main(raw, filter_fields) ==
    GenerateCall(main_model,
                 Prompt("filter",
                        <<str(filter_fields),
                          Truncate(json_dumps_indent(raw, 0), 3000)>>),
                 sub_temperature, 512)

\* _filter_response: the generation request
filter_response_call(raw, filter_fields) ==
    GenerateCall(sub_model,
                 Prompt("filter",
                        <<str(filter_fields),
                          Truncate(json_dumps_indent(raw, 0), 3000)>>),
                 sub_temperature, 512)

\* _direct_response: the generation request
direct_response_call(q, temperature) ==
    GenerateCall(main_model, Prompt("direct", <<q>>), temperature, 2048)

(***************************************************************************)
(* LEAPOrchestrator._filter_response                                       *)
(***************************************************************************)
\* a filter that asks the sub model about every mapping, small ones too
filter_response_before_any_size(raw) ==
    IF isinstance_str(raw)
    THEN [done |-> TRUE,
          val |-> PyDict(<<"content">> :> PyStr(Truncate(raw.v, 1000)))]
    ELSE IF ~isinstance_dict(raw)
    THEN [done |-> TRUE,
          val |-> PyDict(<<"result">> :> PyStr(Truncate(str(raw), 1000)))]
    ELSE [done |-> FALSE, val |-> raw]

\* the part before the sub-model call: [done, val]
filter_response_before(raw) ==
    IF isinstance_str(raw)
    THEN [done |-> TRUE,
          val |-> PyDict(<<"content">> :> PyStr(Truncate(raw.v, 1000)))]
    ELSE IF ~isinstance_dict(raw)
    THEN [done |-> TRUE,
          val |-> PyDict(<<"result">> :> PyStr(Truncate(str(raw), 1000)))]
    ELSE IF PyLen(json_dumps_indent(raw, 0)) < 500
    THEN [done |-> TRUE, val |-> raw]
    ELSE [done |-> FALSE, val |-> raw]

\* re.search(r'[\{\[].*[\}\]]', text, re.DOTALL): [found, text]
SearchBracketed(text) ==
    LET opens == {i \in 1..Len(text) : text[i] \in {"{", "["}}
        closes == {i \in 1..Len(text) : text[i] \in {"}", "]"}}
        first == CHOOSE i \in opens : \A h \in opens : i <= h
        last == CHOOSE i \in closes : \A h \in closes : i >= h
    IN  IF opens = {} \/ closes = {} THEN [found |-> FALSE, text |-> <<>>]
        ELSE IF last < first THEN [found |-> FALSE, text |-> <<>>]
        ELSE [found |-> TRUE, text |-> SubSeq(text, first, last)]

\* a fallback that returns what it extracted, also when that is nothing
filter_fallback_extracted(raw, filter_fields) ==
    LET fields == CASE filter_fields.t = "list" ->
                         {filter_fields.v[i] : i \in 1..Len(filter_fields.v)}
                    [] filter_fields.t = "dict" ->
                         {PyStr(k) : k \in DOMAIN filter_fields.v}
                    [] OTHER -> {}
        kept == {f \in fields : f.t = "str" /\ HasKey(raw, f.v)}
    IN  IF filter_fields.t \notin {"list", "dict", "str"}
           \/ \E f \in fields : ~Hashable(f)
        THEN [raises |-> TRUE, val |-> PyNone]
        ELSE [raises |-> FALSE,
              val |-> PyDict([k \in {f.v : f \in kept} |-> raw.v[k]])]

\* the fallback loop `for field in filter_fields: if field in raw_result`:
\* [raises, val].  Iterating a number raises TypeError, and so does looking
\* up an unhashable field; the characters of a str are no key of a tool
\* result (every key has more than one character).
filter_fallback(raw, filter_fields) ==
    LET fields == CASE filter_fields.t = "list" ->
                         {filter_fields.v[i] : i \in 1..Len(filter_fields.v)}
                    [] filter_fields.t = "dict" ->
                         {PyStr(k) : k \in DOMAIN filter_fields.v}
                    [] OTHER -> {}
        kept == {f \in fields : f.t = "str" /\ HasKey(raw, f.v)}
        filtered == PyDict([k \in {f.v : f \in kept} |-> raw.v[k]])
    IN  IF filter_fields.t \notin {"list", "dict", "str"}
           \/ \E f \in fields : ~Hashable(f)
        THEN [raises |-> TRUE, val |-> PyNone]
        ELSE [raises |-> FALSE, val |-> IF kept # {} THEN filtered ELSE raw]

\* the result of the fallback, marked as such
FromFallback(got) == [raises |-> got.raises, val |-> got.val, parsed |-> FALSE]

\* the part after the sub-model call: [raises, val, parsed]
filter_response_after(raw, filter_fields, response) ==
    LET json_match == SearchBracketed(StripThink(response))
        parsed == IF json_match.found THEN json_loads(json_match.text) ELSE ParseFail
    IN  IF parsed.ok THEN [raises |-> FALSE, val |-> parsed.val, parsed |-> TRUE]
        ELSE FromFallback(filter_fallback(raw, filter_fields))

(***************************************************************************)
(* State                                                                   *)
(***************************************************************************)
\* OrchestrationMetrics(): times count clock ticks, token_reduction is the
\* fraction num / den
OrchestrationMetrics ==
    [phase1_time |-> 0, phase2_time |-> 0, phase3_time |-> 0, total_time |-> 0,
     tool_name |-> PyStr(<<>>), raw_response_tokens |-> 0,
     filtered_response_tokens |-> 0,
     token_reduction |-> [num |-> 0, den |-> 1]]

NoCalls ==
    [planning |-> 0, execution |-> 0, update |-> 0, final |-> 0, direct |-> 0,
     filter |-> 0, tool |-> 0, unknown |-> 0]

NoEvent == [kind |-> "none", text |-> <<>>]

Terminal == {"returned", "raised"}

\* no direct call of the parser was made
NoParse == [text |-> <<>>, done |-> FALSE, result |-> PyNone]

\* the adapter is not inside generate.  tokens_generated is the field of
\* InferenceMetrics; completed (history) is the model of the latest generation
\* that completed; warmed tells that warmup ran
NoGenerate ==
    [pc |-> "idle", stream |-> FALSE, requests |-> 0, chunks |-> 0,
     result |-> <<>>, error |-> "", cause |-> "",
     tokens_generated |-> 0, completed |-> "", warmed |-> FALSE]

\* no second invocation of run() was made
NoSecond == [pc |-> "idle", max_turns |-> 0, current_turn |-> 0]

\* LEAPOrchestrator.__init__ (warm-up apart)
Init ==
    /\ pc = "idle"
    /\ query = <<>>
    /\ max_turns = 0
    /\ current_turn = 0
    /\ tool_request = PyNone
    /\ raw_result = PyNone
    /\ filtered_response = <<>>
    /\ state_summary = <<>>
    /\ metrics = OrchestrationMetrics
    /\ current_model = ""
    /\ config \in [enable_filtering : BOOLEAN]
    /\ call = NoCall
    /\ outcome = "none"
    /\ answer = <<>>
    /\ raised = ""
    /\ runs = 0
    /\ calls = NoCalls
    /\ plan_reply = <<>>
    /\ first_plan = "pending"
    /\ exec_event = NoEvent
    /\ in_progress = {}
    /\ last_update = <<>>
    /\ parser = NoParse
    /\ adapter = NoGenerate
    /\ second = NoSecond

(***************************************************************************)
(* LEAPOrchestrator.run                                                    *)
(***************************************************************************)
\* a loop test that lets one more turn in
LoopGuardOffByOne(turn, limit) == turn <= limit + 1

\* `while current_turn <= max_turns`
LoopGuard(turn, limit) == turn <= limit

\* a test that takes every turn for the first
IsFirstTurnAlways(turn) == TRUE

\* `if current_turn == 1` under `if tool_request is None`
IsFirstTurn(turn) == turn = 1

\* an exception leaves run(): the caller sees it
Raise(kind) ==
    /\ pc' = "raised"
    /\ outcome' = "error"
    /\ raised' = kind
    /\ call' = NoCall
    /\ in_progress' = {}

\* a run() that sets the sentinel on the first run only and afterwards goes
\* on from the summary the run before left
RunBeginKeepSummary(q, n) ==
    /\ pc \in {"idle"} \cup Terminal
    /\ runs' = runs + 1
    /\ state_summary' = IF runs = 0 THEN SENTINEL ELSE state_summary
    /\ query' = q
    /\ max_turns' = n
    /\ current_turn' = 1
    /\ pc' = "loop"
    /\ tool_request' = PyNone
    /\ raw_result' = PyNone
    /\ filtered_response' = <<>>
    /\ call' = NoCall
    /\ outcome' = "none"
    /\ answer' = <<>>
    /\ raised' = ""
    /\ calls' = NoCalls
    /\ plan_reply' = <<>>
    /\ first_plan' = "pending"
    /\ exec_event' = NoEvent
    /\ in_progress' = {}
    /\ last_update' = SENTINEL
    /\ UNCHANGED <<metrics, current_model, config>>
    /\ UNCHANGED outside

\* run() is entered and reaches its loop: lines 85-93
RunBegin(q, n) ==
    /\ pc \in {"idle"} \cup Terminal
    /\ runs' = runs + 1
    /\ state_summary' = SENTINEL
    /\ query' = q
    /\ max_turns' = n
    /\ current_turn' = 1
    /\ pc' = "loop"
    /\ tool_request' = PyNone
    /\ raw_result' = PyNone
    /\ filtered_response' = <<>>
    /\ call' = NoCall
    /\ outcome' = "none"
    /\ answer' = <<>>
    /\ raised' = ""
    /\ calls' = NoCalls
    /\ plan_reply' = <<>>
    /\ first_plan' = "pending"
    /\ exec_event' = NoEvent
    /\ in_progress' = {}
    /\ last_update' = SENTINEL
    /\ UNCHANGED <<metrics, current_model, config>>
    /\ UNCHANGED outside

\* run() is called
RunStart(q, n) ==
    /\ runs < MaxRuns
    /\ RunBegin(q, n)

\* the loop test holds: _phase1_planning sends its prompt
LoopEnter ==
    /\ pc = "loop"
    /\ plan_reply' = <<>>
    /\ LoopGuard(current_turn, max_turns)
    /\ calls.planning <= MaxTurns      \* keeps the history counters bounded
    /\ pc' = "planning"
    /\ call' = phase1_planning_call(query, state_summary)
    /\ calls' = [calls EXCEPT !.planning = @ + 1]
    /\ in_progress' = in_progress \cup {"planning"}
    /\ exec_event' = NoEvent
    /\ UNCHANGED <<query, max_turns, current_turn, tool_request, raw_result,
                   filtered_response, state_summary, metrics, current_model,
                   config, outcome, answer, raised, runs, first_plan, last_update>>
    /\ UNCHANGED outside

\* _generate_final_answer sends its prompt
StartFinalAnswer(c) ==
    /\ pc' = "final"
    /\ call' = generate_final_answer_call(query, state_summary)
    /\ calls' = [c EXCEPT !.final = @ + 1]

\* the loop test fails: the turns are exhausted
LoopExit ==
    /\ pc = "loop"
    /\ plan_reply' = <<>>
    /\ ~LoopGuard(current_turn, max_turns)
    /\ StartFinalAnswer(calls)
    /\ UNCHANGED <<query, max_turns, current_turn, tool_request, raw_result,
                   filtered_response, state_summary, metrics, current_model,
                   config, outcome, answer, raised, runs, first_plan, exec_event, in_progress, last_update>>
    /\ UNCHANGED outside

\* a run that catches the failure of a generation request and answers with
\* the text of the error
GenerateFailAnswered ==
    /\ pc \in {"planning", "filtering", "updating", "final", "direct",
               "direct_retry"}
    /\ plan_reply' = <<>>
    /\ pc' = "returned"
    /\ outcome' = "final"
    /\ answer' = <<"error">>
    /\ raised' = "RuntimeError"
    /\ call' = NoCall
    /\ in_progress' = {}
    /\ UNCHANGED <<query, max_turns, current_turn, tool_request, raw_result,
                   filtered_response, state_summary, metrics, current_model,
                   config, runs, calls, first_plan,
                   exec_event, last_update>>
    /\ UNCHANGED outside

\* any generation request fails: generate raises RuntimeError
GenerateFail ==
    /\ pc \in {"planning", "filtering", "updating", "final", "direct",
               "direct_retry"}
    /\ plan_reply' = <<>>
    /\ Raise("RuntimeError")
    /\ UNCHANGED <<query, max_turns, current_turn, tool_request, raw_result,
                   filtered_response, state_summary, metrics, current_model,
                   config, answer, runs, calls, first_plan,
                   exec_event, last_update>>
    /\ UNCHANGED outside

\* history only: the request names a tool (a str) that the tool table lacks
RequestsUnknownName(request) ==
    /\ isinstance_dict(request)
    /\ HasKey(request, KEY_TOOL)
    /\ request.v[KEY_TOOL].t = "str"
    /\ request.v[KEY_TOOL].v \notin load_tools

\* lines 103-115: run() with the request parsed from the reply
Phase1Parsed(request, c) ==
    /\ tool_request' = request
    /\ first_plan' = IF first_plan # "pending" THEN first_plan
                     ELSE IF request = PyNone THEN "none" ELSE "tool"
    /\ IF request = PyNone
       THEN IF IsFirstTurn(current_turn)
            THEN /\ pc' = "direct"
                 /\ call' = direct_response_call(query, main_temperature)
                 /\ calls' = [c EXCEPT !.direct = @ + 1]
            ELSE StartFinalAnswer(c)
       ELSE /\ pc' = "exec"
            /\ call' = NoCall
            /\ calls' = c

\* history: one more planning reply that names an unknown tool
CountUnknown(request) ==
    [calls EXCEPT !.unknown = IF RequestsUnknownName(request) THEN @ + 1 ELSE @]

Phase1Request(request) == Phase1Parsed(request, CountUnknown(request))

\* the planning request returns: lines 202, 103-115
Phase1Return(response) ==
    /\ pc = "planning"
    /\ current_model' = call.model
    /\ plan_reply' = response
    /\ metrics' = [metrics EXCEPT !.phase1_time = @ + 1]
    /\ in_progress' = in_progress \ {"planning"}
    /\ Phase1Request(parse_tool_request(response))
    /\ UNCHANGED <<query, max_turns, current_turn, raw_result,
                   filtered_response, state_summary, config, outcome, answer,
                   raised, runs, exec_event, last_update>>
    /\ UNCHANGED outside

(***************************************************************************)
(* LEAPOrchestrator._phase2_execution                                      *)
(***************************************************************************)
\* json.dumps({"error": message})
ErrorText(message) == json_dumps(PyDict(<<"error">> :> PyStr(message)))

\* f"Unknown tool: {tool_name}"
UnknownToolMessage(tool_name) ==
    <<"Unknown", " ", "tool", ":", " ">> \o str(tool_name)

\* an execution phase after which run() skips the state update
Phase2DoneSkipUpdate(m, c, text, event) ==
    /\ filtered_response' = text
    /\ metrics' = [m EXCEPT !.phase2_time = @ + 1]
    /\ exec_event' = event
    /\ pc' = "loop"
    /\ call' = NoCall
    /\ calls' = c
    /\ in_progress' = in_progress \ {"execution"}

\* an execution phase whose time run() also adds to the total
Phase2DoneAddsTotal(m, c, text, event) ==
    /\ filtered_response' = text
    /\ metrics' = [m EXCEPT !.phase2_time = @ + 1, !.total_time = @ + 1]
    /\ exec_event' = event
    /\ pc' = "updating"
    /\ call' = phase3_update_state_call(query, state_summary, tool_request, text)
    /\ calls' = [c EXCEPT !.update = @ + 1]
    /\ in_progress' = (in_progress \ {"execution"}) \cup {"update"}

\* _phase2_execution returns `text`; run() adds the phase time and
\* _phase3_update_state sends its prompt
Phase2Done(m, c, text, event) ==
    /\ filtered_response' = text
    /\ metrics' = [m EXCEPT !.phase2_time = @ + 1]
    /\ exec_event' = event
    /\ pc' = "updating"
    /\ call' = phase3_update_state_call(query, state_summary, tool_request, text)
    /\ calls' = [c EXCEPT !.update = @ + 1]
    /\ in_progress' = (in_progress \ {"execution"}) \cup {"update"}

\* an accounting that rounds the filtered size up
TrackFilteredRoundedUp(m, filtered) ==
    LET filtered_json == IF isinstance_dict(filtered) THEN json_dumps(filtered)
                         ELSE str(filtered)
        tokens == (PyLen(filtered_json) + 3) \div 4
    IN  [m EXCEPT !.filtered_response_tokens = tokens,
                  !.token_reduction =
                      IF m.raw_response_tokens > 0
                      THEN [num |-> (m.raw_response_tokens - tokens) * 100,
                            den |-> m.raw_response_tokens]
                      ELSE @]

\* lines 322-331: the filtered size and the reduction
TrackFiltered(m, filtered) ==
    LET filtered_json == IF isinstance_dict(filtered) THEN json_dumps(filtered)
                         ELSE str(filtered)
        tokens == PyLen(filtered_json) \div 4
    IN  [m EXCEPT !.filtered_response_tokens = tokens,
                  !.token_reduction =
                      IF m.raw_response_tokens > 0
                      THEN [num |-> (m.raw_response_tokens - tokens) * 100,
                            den |-> m.raw_response_tokens]
                      ELSE @]

FilteredText(filtered) ==
    IF isinstance_dict(filtered) THEN json_dumps(filtered) ELSE str(filtered)

\* lines 286-303, up to the call of the tool
Phase2Start ==
    /\ pc = "exec"
    /\ plan_reply' = <<>>
    /\ LET tool_name == DictGet(tool_request, KEY_TOOL, PyNone)
           params == DictGet(tool_request, KEY_PARAMS, PyDict(EmptyMap))
           m == [metrics EXCEPT !.tool_name = tool_name]
           c == [calls EXCEPT !.execution = @ + 1]
       IN  IF ~Hashable(tool_name)
           THEN \* `tool_name not in self.tools` raises TypeError
                /\ Raise("TypeError")
                /\ metrics' = m
                /\ calls' = c
                /\ exec_event' = [kind |-> "unhashable", text |-> <<>>]
                /\ UNCHANGED filtered_response
           ELSE IF ~InTools(tool_name)
           THEN /\ Phase2Done(m, c, ErrorText(UnknownToolMessage(tool_name)),
                              [kind |-> "unknown",
                               text |-> UnknownToolMessage(tool_name)])
                /\ UNCHANGED <<outcome, raised>>
           ELSE IF Truthy(params) /\ ~isinstance_dict(params)
           THEN \* tool_func(**params) raises TypeError inside the try
                /\ Phase2Done(m, c, ErrorText(PARAMS_TYPE_ERROR),
                              [kind |-> "raised", text |-> PARAMS_TYPE_ERROR])
                /\ UNCHANGED <<outcome, raised>>
           ELSE /\ pc' = "tool"
                /\ metrics' = m
                /\ calls' = [c EXCEPT !.tool = @ + 1]
                /\ in_progress' = in_progress \cup {"execution"}
                /\ UNCHANGED <<filtered_response, exec_event, call, outcome, raised>>
    /\ UNCHANGED <<query, max_turns, current_turn, tool_request, raw_result,
                   state_summary, current_model, config, answer, runs,
                   first_plan, last_update>>
    /\ UNCHANGED outside

\* a tool exception that nothing catches
ToolRaisePropagates(message) ==
    /\ pc = "tool"
    /\ plan_reply' = <<>>
    /\ Raise("Exception")
    /\ exec_event' = [kind |-> "raised", text |-> message]
    /\ UNCHANGED <<query, max_turns, current_turn, tool_request, raw_result,
                   filtered_response, state_summary, metrics, current_model,
                   config, answer, runs, calls, first_plan, last_update>>
    /\ UNCHANGED outside

\* a handler of the tool exception that also clears the token figures
ToolRaiseClearsTokens(message) ==
    /\ pc = "tool"
    /\ plan_reply' = <<>>
    /\ Phase2Done([metrics EXCEPT !.raw_response_tokens = 0,
                                  !.filtered_response_tokens = 0,
                                  !.token_reduction = [num |-> 0, den |-> 1]],
                  calls, ErrorText(message),
                  [kind |-> "raised", text |-> message])
    /\ UNCHANGED <<query, max_turns, current_turn, tool_request, raw_result,
                   state_summary, current_model, config, outcome, answer,
                   raised, runs, first_plan, last_update>>
    /\ UNCHANGED outside

\* the tool callable raises: lines 304-305
ToolRaise(message) ==
    /\ pc = "tool"
    /\ plan_reply' = <<>>
    /\ Phase2Done(metrics, calls, ErrorText(message),
                  [kind |-> "raised", text |-> message])
    /\ UNCHANGED <<query, max_turns, current_turn, tool_request, raw_result,
                   state_summary, current_model, config, outcome, answer,
                   raised, runs, first_plan, last_update>>
    /\ UNCHANGED outside

\* the tool callable returns: lines 303, 307-331 up to the sub-model call
ToolReturn(result) ==
    /\ pc = "tool"
    /\ plan_reply' = <<>>
    /\ raw_result' = result
    /\ LET filter_fields == DictGet(tool_request, KEY_FILTER, PyList(<<>>))
           raw_json == IF isinstance_dict(result) THEN json_dumps(result)
                       ELSE str(result)
           m == [metrics EXCEPT !.raw_response_tokens = PyLen(raw_json) \div 4]
           event == [kind |-> "returned", text |-> <<>>]
       IN  IF isinstance_dict(result) /\ ~Serializable(result)
           THEN \* json.dumps(raw_result) raises TypeError outside the try
                /\ Raise("TypeError")
                /\ exec_event' = [kind |-> "unserializable", text |-> <<>>]
                /\ UNCHANGED <<metrics, calls, filtered_response>>
           ELSE IF config.enable_filtering /\ Truthy(filter_fields)
           THEN IF filter_response_before(result).done
                THEN /\ Phase2Done(TrackFiltered(m, filter_response_before(result).val),
                                   calls,
                                   FilteredText(filter_response_before(result).val),
                                   event)
                     /\ UNCHANGED <<outcome, raised>>
                ELSE /\ pc' = "filtering"
                     /\ call' = filter_response_call(result, filter_fields)
                     /\ calls' = [calls EXCEPT !.filter = @ + 1]
                     /\ metrics' = m
                     /\ exec_event' = event
                     /\ UNCHANGED <<filtered_response, in_progress, outcome, raised>>
           ELSE /\ Phase2Done(TrackFiltered(m, result), calls,
                              FilteredText(result), event)
                /\ UNCHANGED <<outcome, raised>>
    /\ UNCHANGED <<query, max_turns, current_turn, tool_request, state_summary,
                   current_model, config, answer, runs, first_plan,
                   last_update>>
    /\ UNCHANGED outside

\* the filter request returns: lines 363-378, 322-331
FilterReturn(response) ==
    /\ pc = "filtering"
    /\ plan_reply' = <<>>
    /\ current_model' = call.model
    /\ LET filter_fields == DictGet(tool_request, KEY_FILTER, PyList(<<>>))
           got == filter_response_after(raw_result, filter_fields, response)
       IN  IF got.raises
           THEN /\ Raise("TypeError")
                /\ exec_event' = [kind |-> "filter_raised", text |-> <<>>]
                /\ UNCHANGED <<metrics, calls, filtered_response>>
           ELSE /\ Phase2Done(TrackFiltered(metrics, got.val), calls,
                              FilteredText(got.val),
                              [kind |-> IF got.parsed THEN "filtered"
                                        ELSE "fallback",
                               text |-> <<>>])
                /\ UNCHANGED <<outcome, raised>>
    /\ UNCHANGED <<query, max_turns, current_turn, tool_request, raw_result,
                   state_summary, config, answer, runs, first_plan,
                   last_update>>
    /\ UNCHANGED outside

(***************************************************************************)
(* _phase3_update_state, _generate_final_answer, _direct_response          *)
(***************************************************************************)
\* re.sub(think) then strip(), as applied to a reply
CleanResponse(response) == Strip(StripThink(response))

\* a state update after which the turn counter stays
Phase3ReturnSameTurn(response) ==
    /\ pc = "updating"
    /\ plan_reply' = <<>>
    /\ current_model' = call.model
    /\ state_summary' = CleanResponse(response)
    /\ last_update' = CleanResponse(response)
    /\ metrics' = [metrics EXCEPT !.phase3_time = @ + 1]
    /\ pc' = "loop"
    /\ call' = NoCall
    /\ in_progress' = in_progress \ {"update"}
    /\ tool_request' = PyNone
    /\ raw_result' = PyNone
    /\ filtered_response' = <<>>
    /\ UNCHANGED <<query, max_turns, current_turn, config, outcome, answer,
                   raised, runs, calls, first_plan, exec_event>>
    /\ UNCHANGED outside

\* the state-update request returns: lines 230, 130-132
Phase3Return(response) ==
    /\ pc = "updating"
    /\ plan_reply' = <<>>
    /\ current_model' = call.model
    /\ state_summary' = CleanResponse(response)
    /\ last_update' = CleanResponse(response)
    /\ metrics' = [metrics EXCEPT !.phase3_time = @ + 1]
    /\ current_turn' = current_turn + 1
    /\ pc' = "loop"
    /\ call' = NoCall
    /\ in_progress' = in_progress \ {"update"}
    \* the locals of the turn are dead from here on
    /\ tool_request' = PyNone
    /\ raw_result' = PyNone
    /\ filtered_response' = <<>>
    /\ UNCHANGED <<query, max_turns, config, outcome, answer, raised, runs,
                   calls, first_plan, exec_event>>
    /\ UNCHANGED outside

\* run() returns `text`
Return(how, text) ==
    /\ pc' = "returned"
    /\ outcome' = how
    /\ answer' = text
    /\ call' = NoCall

\* the final-answer request returns: lines 153-158, 141
FinalReturn(response) ==
    /\ pc = "final"
    /\ plan_reply' = <<>>
    /\ current_model' = call.model
    /\ Return("final", response)
    /\ UNCHANGED <<query, max_turns, current_turn, tool_request, raw_result,
                   filtered_response, state_summary, metrics, config, raised,
                   runs, calls, first_plan, exec_event,
                   in_progress, last_update>>
    /\ UNCHANGED outside

\* a test that retries an empty reply only
NeedsRetryIfEmpty(response) == response = <<>>

\* `if not response or len(response) < 10`
NeedsRetry(response) == response = <<>> \/ PyLen(response) < 10

\* the first direct-response request returns: lines 413-426, 435
DirectReturn(response) ==
    /\ pc = "direct"
    /\ plan_reply' = <<>>
    /\ current_model' = call.model
    /\ IF NeedsRetry(CleanResponse(response))
       THEN /\ pc' = "direct_retry"
            /\ call' = direct_response_call(query, "0.8")
            /\ calls' = [calls EXCEPT !.direct = @ + 1]
            /\ UNCHANGED <<outcome, answer>>
       ELSE /\ Return("direct", CleanResponse(response))
            /\ UNCHANGED calls
    /\ UNCHANGED <<query, max_turns, current_turn, tool_request, raw_result,
                   filtered_response, state_summary, metrics, config, raised,
                   runs, first_plan, exec_event, in_progress,
                   last_update>>
    /\ UNCHANGED outside

\* the retried direct-response request returns: lines 427-435
DirectRetryReturn(response) ==
    /\ pc = "direct_retry"
    /\ plan_reply' = <<>>
    /\ current_model' = call.model
    /\ Return("direct", CleanResponse(response))
    /\ UNCHANGED <<query, max_turns, current_turn, tool_request, raw_result,
                   filtered_response, state_summary, metrics, config, raised,
                   runs, calls, first_plan, exec_event,
                   in_progress, last_update>>
    /\ UNCHANGED outside

(***************************************************************************)
(* Specifications                                                          *)
(***************************************************************************)
\* the max_turns a caller passes: 0 stands for the values below 1
TurnLimits == 0..MaxTurns

\* a step of the run in progress
RunStep ==
    \/ LoopEnter
    \/ LoopExit
    \/ GenerateFail
    \/ \E response \in PlannerReplies : Phase1Return(response)
    \/ Phase2Start
    \/ \E message \in ToolExceptions : ToolRaise(message)
    \/ \E result \in ToolReturns(DictGet(tool_request, KEY_TOOL, PyNone)) :
          ToolReturn(result)
    \/ \E response \in FilterReplies : FilterReturn(response)
    \/ \E response \in UpdateReplies : Phase3Return(response)
    \/ \E response \in FinalReplies : FinalReturn(response)
    \/ \E response \in DirectReplies : DirectReturn(response)
    \/ \E response \in DirectReplies : DirectRetryReturn(response)

Next ==
    \/ \E q \in Queries, n \in TurnLimits : RunStart(q, n)
    \/ RunStep

Spec == Init /\ [][Next]_vars

\* run() is called on a newly constructed orchestrator
FirstRun ==
    /\ pc = "idle"
    /\ \E q \in Queries, n \in TurnLimits : RunStart(q, n)

FairNext ==
    \/ FirstRun
    \/ RunStep

\* one run in which every model call and tool call returns or raises, and
\* the interpreter goes on to the next statement of run()
FairSpec == Init /\ [][FairNext]_vars /\ WF_vars(RunStep)

(***************************************************************************)
(* An interactive session: run_cli hands one task after another to the     *)
(* same orchestrator, whether the task before returned or raised           *)
(***************************************************************************)
\* cli.py line 144: agent.run(user_input), with TaskTurns standing for the
\* default max_turns
NextTask(q) ==
    /\ runs < MaxTasks
    /\ RunBegin(q, TaskTurns)

SessionNext ==
    \/ \E q \in Queries : NextTask(q)
    \/ RunStep

SessionSpec == Init /\ [][SessionNext]_vars

(***************************************************************************)
(* _parse_tool_request called on its own, on texts built from JSON objects *)
(* and from the prose and fences a model puts around them                  *)
(***************************************************************************)
\* JSON objects with a tool key
ParserObjects ==
    { REPLY_CALCULATE, REPLY_UNKNOWN, REPLY_FINISH,
      \* {"tool": "null"}
      <<"{", "\"", "tool", "\"", ":", " ", "\"", "null", "\"", "}">>,
      \* {"tool": null, "params": {}}
      <<"{", "\"", "tool", "\"", ":", " ", "null", ",", " ", "\"", "params",
        "\"", ":", " ", "{", "}", "}">>,
      \* {"tool": "null", "filter": ["x"]}
      <<"{", "\"", "tool", "\"", ":", " ", "\"", "null", "\"", ",", " ", "\"",
        "filter", "\"", ":", " ", "[", "\"", "x", "\"", "]", "}">>,
      \* {"a": "<think>", "tool": null, "b": {"c": "</think>", "tool": "calculate"}}
      <<"{", "\"", "a", "\"", ":", " ", "\"", "<", "think", ">", "\"", ",",
        " ", "\"", "tool", "\"", ":", " ", "null", ",", " ", "\"", "b", "\"",
        ":", " ", "{", "\"", "c", "\"", ":", " ", "\"", "<", "/", "think", ">",
        "\"", ",", " ", "\"", "tool", "\"", ":", " ", "\"", "calculate", "\"",
        "}", "}">>,
      \* {"tool": ""}
      <<"{", "\"", "tool", "\"", ":", " ", "\"", "\"", "}">>,
      \* {"tool": "", "params": {}}
      <<"{", "\"", "tool", "\"", ":", " ", "\"", "\"", ",", " ", "\"",
        "params", "\"", ":", " ", "{", "}", "}">>,
      \* {"tool": "calculate", "params": {"expression": "}"}}
      <<"{", "\"", "tool", "\"", ":", " ", "\"", "calculate", "\"", ",", " ",
        "\"", "params", "\"", ":", " ", "{", "\"", "expression", "\"", ":",
        " ", "\"", "}", "\"", "}", "}">>,
      \* {"tool": "calculate", "params": {"expression": "{"}}
      <<"{", "\"", "tool", "\"", ":", " ", "\"", "calculate", "\"", ",", " ",
        "\"", "params", "\"", ":", " ", "{", "\"", "expression", "\"", ":",
        " ", "\"", "{", "\"", "}", "}">> }

\* the prose before a fenced block, the fence that opens it, the prose after
Wrappings ==
    [before : { <<>>, <<"sure", ":", "\n">>,
                <<"use", " ", "{", "x", "}", ":", "\n">> },
     fence : {FENCE, FENCE_JSON},
     after : { <<>>, <<"\n", "ok">> }]

\* the object J inside one fenced block, with prose around the block
Wrap(J, w) == w.before \o w.fence \o <<"\n">> \o J \o <<"\n">> \o FENCE \o w.after

\* the texts handed to the parser
ParserInputs ==
    ParserObjects \cup PlannerReplies
    \cup {Wrap(J, w) : J \in ParserObjects, w \in Wrappings}
    \cup { \* <<think>x</think>think>y</think>{"tool": null}
           <<"<">> \o THINK_OPEN \o <<"x">> \o THINK_CLOSE \o <<"think", ">", "y">>
           \o THINK_CLOSE \o REPLY_FINISH }

\* self._parse_tool_request(text), outside any run
ParseCall(text) ==
    /\ pc = "idle"
    /\ ~parser.done
    /\ parser' = [text |-> text, done |-> TRUE,
                  result |-> parse_tool_request(text)]
    /\ UNCHANGED <<inside, adapter, second>>

ParserNext == \E text \in ParserInputs : ParseCall(text)

ParserSpec == Init /\ [][ParserNext]_vars

(***************************************************************************)
(* OllamaInference.generate called on its own, in blocking and in          *)
(* streaming mode.  adapter.pc: "backend" while ollama.generate is awaited,*)
(* "generator" once generate has returned the generator object of          *)
(* _stream_generate, "streaming" while the caller iterates it.             *)
(***************************************************************************)
\* the exceptions of the backend: transport, HTTP status, and a reply without
\* the 'response' key (line 70; line 95 tests for the key in a chunk)
BackendErrors == {"ConnectionError", "ResponseError", "KeyError"}

\* everything but the adapter's own state
AdapterFrame ==
    UNCHANGED <<pc, query, max_turns, current_turn, tool_request, raw_result,
                filtered_response, state_summary, metrics, config, outcome,
                answer, raised, runs, calls, plan_reply, first_plan,
                exec_event, in_progress, last_update, parser, second>>

\* generate(model, prompt, stream=stream) is called: lines 41-59.  In
\* streaming mode line 50 returns the generator object; its body has not
\* started, so no request has been made yet.
Generate(model, prompt, stream) ==
    /\ pc = "idle"
    /\ adapter.pc \in {"idle", "returned", "raised", "exhausted", "abandoned"}
    /\ call' = GenerateCall(model, prompt, "0.7", 1024)
    /\ adapter' = [NoGenerate EXCEPT
                     !.pc = IF stream THEN "generator" ELSE "backend",
                     !.stream = stream,
                     !.requests = IF stream THEN 0 ELSE 1,
                     !.tokens_generated = adapter.tokens_generated,
                     !.completed = adapter.completed,
                     !.warmed = adapter.warmed]
    /\ UNCHANGED current_model
    /\ AdapterFrame

\* ollama.generate returns in blocking mode: lines 61-70, with the length of
\* the text for the reply's eval_count
BackendReturn(text) ==
    /\ adapter.pc = "backend"
    /\ current_model' = call.model
    /\ adapter' = [adapter EXCEPT !.pc = "returned", !.result = text,
                                  !.tokens_generated = Len(text),
                                  !.completed = call.model]
    /\ UNCHANGED call
    /\ AdapterFrame

\* a handler that reaches the bookkeeping only once the reply was read
BackendErrorBeforeBookkeeping(kind) ==
    /\ adapter.pc = "backend"
    /\ adapter' = [adapter EXCEPT !.pc = "raised", !.error = "RuntimeError",
                                  !.cause = kind]
    /\ UNCHANGED <<call, current_model>>
    /\ AdapterFrame

\* ollama.generate, or the reading of its reply, raises in blocking mode:
\* lines 72-73.  The KeyError of response['response'] (line 70) comes after
\* the bookkeeping of lines 61-68, made with the default eval_count of 0.
BackendError(kind) ==
    /\ adapter.pc = "backend"
    /\ adapter' = [adapter EXCEPT !.pc = "raised", !.error = "RuntimeError",
                                  !.cause = kind,
                                  !.tokens_generated =
                                      IF kind = "KeyError" THEN 0 ELSE @]
    /\ current_model' = IF kind = "KeyError" THEN call.model ELSE current_model
    /\ UNCHANGED call
    /\ AdapterFrame

\* the caller asks the generator for its first item: lines 83-94, the
\* streaming request is made
StreamStart ==
    /\ adapter.pc = "generator"
    /\ adapter' = [adapter EXCEPT !.pc = "streaming", !.requests = @ + 1]
    /\ UNCHANGED <<call, current_model>>
    /\ AdapterFrame

\* a chunk arrives and is yielded: lines 95-97
StreamChunk(text) ==
    /\ adapter.pc = "streaming"
    /\ adapter.chunks < MaxChunks
    /\ adapter' = [adapter EXCEPT !.chunks = @ + 1, !.result = @ \o text]
    /\ UNCHANGED <<call, current_model>>
    /\ AdapterFrame

\* the stream ends: lines 99-103
StreamEnd ==
    /\ adapter.pc = "streaming"
    /\ current_model' = call.model
    /\ adapter' = [adapter EXCEPT !.pc = "exhausted",
                                  !.tokens_generated = adapter.chunks,
                                  !.completed = call.model]
    /\ UNCHANGED call
    /\ AdapterFrame

\* the streaming request, or the reading of a chunk, raises inside the
\* generator: the frame of generate and its try (lines 48-73) are gone, the
\* exception leaves next() as it is
StreamError(kind) ==
    /\ adapter.pc = "streaming"
    /\ adapter' = [adapter EXCEPT !.pc = "raised", !.error = kind,
                                  !.cause = kind]
    /\ UNCHANGED <<call, current_model>>
    /\ AdapterFrame

\* the caller drops the generator before its end: the body never reaches
\* lines 99-103
StreamAbandon ==
    /\ adapter.pc \in {"generator", "streaming"}
    /\ adapter' = [adapter EXCEPT !.pc = "abandoned"]
    /\ UNCHANGED <<call, current_model>>
    /\ AdapterFrame

\* warmup(): lines 105-130, two requests to the backend and no bookkeeping
warmup ==
    /\ pc = "idle"
    /\ adapter.pc \in {"idle", "returned", "raised", "exhausted", "abandoned"}
    /\ ~adapter.warmed
    /\ adapter' = [adapter EXCEPT !.warmed = TRUE]
    /\ UNCHANGED <<call, current_model>>
    /\ AdapterFrame

AdapterNext ==
    \/ \E model \in {main_model, sub_model}, q \in Queries, stream \in BOOLEAN :
          Generate(model, Prompt("direct", <<q>>), stream)
    \/ \E text \in FinalReplies : BackendReturn(text)
    \/ \E kind \in BackendErrors : BackendError(kind)
    \/ StreamStart
    \/ \E text \in FinalReplies : StreamChunk(text)
    \/ StreamEnd
    \/ \E kind \in BackendErrors \ {"KeyError"} : StreamError(kind)
    \/ StreamAbandon
    \/ warmup

AdapterSpec == Init /\ [][AdapterNext]_vars

(***************************************************************************)
(* A second run() invocation on the same orchestrator, interleaved with    *)
(* the run in progress (another thread calls agent.run).  It is followed   *)
(* through its assignments to self.state_summary only: line 85 and, once   *)
(* per turn with a tool, line 230.                                         *)
(***************************************************************************)
\* everything but self.state_summary and the second invocation
SecondFrame ==
    UNCHANGED <<pc, query, max_turns, current_turn, tool_request, raw_result,
                filtered_response, metrics, current_model, config, call,
                outcome, answer, raised, runs, calls, plan_reply, first_plan,
                exec_event, in_progress, last_update, parser, adapter>>

\* the second invocation starts: lines 85-93
SecondStart ==
    /\ second.pc = "idle"
    /\ state_summary' = SENTINEL
    /\ second' = [pc |-> "running", max_turns |-> MaxTurns, current_turn |-> 1]
    /\ SecondFrame

\* a turn of the second invocation ends: lines 95, 230, 132
SecondUpdate(response) ==
    /\ second.pc = "running"
    /\ LoopGuard(second.current_turn, second.max_turns)
    /\ state_summary' = CleanResponse(response)
    /\ second' = [second EXCEPT !.current_turn = @ + 1]
    /\ SecondFrame

\* the second invocation returns or raises
SecondEnd ==
    /\ second.pc = "running"
    /\ second' = [second EXCEPT !.pc = "done"]
    /\ UNCHANGED state_summary
    /\ SecondFrame

ConcurrentNext ==
    \/ FirstRun
    \/ RunStep
    \/ SecondStart
    \/ \E response \in UpdateReplies : SecondUpdate(response)
    \/ SecondEnd

ConcurrentSpec == Init /\ [][ConcurrentNext]_vars

(***************************************************************************)
(* Properties of a run                                                     *)
(***************************************************************************)
Running == pc \notin {"idle"} \cup Terminal

\* the counter of a run in any state: at least 1, at most max_turns + 1, and
\* never more planning calls than max_turns
TurnsBounded ==
    pc # "idle" =>
        /\ calls.planning <= max_turns
        /\ current_turn >= 1
        /\ current_turn <= max_turns + 1

\* a step that changes the counter starts a run at 1 or ends a state update
\* with one more
TurnStep ==
    current_turn' # current_turn =>
        \/ pc \in {"idle"} \cup Terminal /\ pc' = "loop" /\ current_turn' = 1
        \/ pc = "updating" /\ pc' = "loop" /\ current_turn' = current_turn + 1

\* C1: run(query, N) makes at most N planning calls, whatever the planner and
\* the tools answer; the turn counter starts at 1, changes only by +1 when a
\* state update completes, and never exceeds N + 1.
C1_TurnLoopBounded == []TurnsBounded /\ [][TurnStep]_vars

\* C1 witness: all the turns are used up and the final answer is asked for
C1_Witness ==
    /\ pc = "final"
    /\ max_turns = MaxTurns
    /\ calls.planning = max_turns
    /\ current_turn = max_turns + 1

\* the three ways a run ends, and what each of them implies
Endings ==
    /\ Running => outcome = "none"
    /\ pc = "returned" => outcome \in {"direct", "final"} /\ raised = ""
    /\ pc = "raised" => outcome = "error" /\ raised # ""
    /\ outcome = "direct" =>
          calls.planning = 1 /\ first_plan = "none" /\ calls.final = 0
    /\ outcome = "final" =>
          /\ calls.direct = 0
          /\ \/ current_turn = max_turns + 1
             \/ /\ current_turn > 1
                /\ calls.planning = current_turn
                /\ calls.update = current_turn - 1

\* C2: when every model call and tool call returns or raises, a run that has
\* started ends: it returns the direct response, or the final answer (after
\* a finish signal on a later turn or with the turns used up), or it raises;
\* it never stays in the planning / execution / state-update cycle.
C2_RunEnds == []Endings /\ [](Running => <>(pc \in Terminal))

\* C2 witness: a finish signal on a later turn ended the run with the final
\* answer
C2_Witness ==
    /\ pc = "returned"
    /\ outcome = "final"
    /\ current_turn > 1
    /\ current_turn <= max_turns

\* C3: a turn whose planning call selects a tool makes one planning call,
\* then one execution call, then one state-update call, before the next
\* planning call; a turn whose planning call selects none makes neither an
\* execution nor a state-update call; at most one phase is in progress.
C3_PhasesInOrder ==
    /\ Cardinality(in_progress) <= 1
    /\ calls.update <= calls.execution
    /\ calls.execution <= calls.planning
    /\ calls.planning <= calls.update + 1
    /\ calls.tool <= calls.execution
    /\ pc = "loop" =>
          in_progress = {} /\ calls.update = calls.planning
          /\ calls.planning = current_turn - 1
    /\ pc = "planning" =>
          in_progress = {"planning"} /\ calls.planning = current_turn
          /\ calls.execution = current_turn - 1
    /\ pc = "exec" =>
          in_progress = {} /\ tool_request # PyNone
          /\ calls.planning = current_turn /\ calls.execution = current_turn - 1
    /\ pc \in {"tool", "filtering"} =>
          in_progress = {"execution"} /\ calls.execution = current_turn
          /\ calls.update = current_turn - 1
    /\ pc = "updating" =>
          in_progress = {"update"} /\ calls.update = current_turn
    /\ pc \in {"direct", "direct_retry", "final", "returned"} =>
          /\ in_progress = {}
          /\ calls.execution = current_turn - 1
          /\ calls.update = current_turn - 1
          /\ calls.planning =
                IF current_turn <= max_turns THEN current_turn ELSE max_turns

\* C3 witness: the state update of a second tool turn is in progress
C3_Witness ==
    /\ pc = "updating"
    /\ current_turn = 2
    /\ calls.tool = 2

\* C4: a run takes the direct response exactly when its first planning call
\* yields no tool; such a run makes one planning call, invokes no tool, makes
\* no state-update and no final-answer call, and keeps the sentinel summary;
\* a planning call that yields no tool on a later turn leads to the final
\* answer.
C4_DirectOnlyFirst ==
    /\ (pc \in {"direct", "direct_retry"} \/ outcome = "direct") =>
          /\ first_plan = "none"
          /\ calls.planning = 1
          /\ calls.execution = 0
          /\ calls.tool = 0
          /\ calls.update = 0
          /\ calls.final = 0
          /\ state_summary = SENTINEL
    /\ first_plan = "none" =>
          \/ pc \in {"direct", "direct_retry"}
          \/ outcome = "direct"
          \/ pc = "raised" /\ calls.direct >= 1 /\ calls.final = 0
    /\ (plan_reply # <<>> /\ tool_request = PyNone /\ current_turn > 1) =>
          pc = "final" /\ calls.direct = 0

\* C4 witness: the run returned the direct response
C4_Witness ==
    /\ pc = "returned"
    /\ outcome = "direct"
    /\ answer = DIRECT_LONG

\* C5: the prompt of a planning call holds the catalogue, the query and the
\* rolling summary and nothing else, and the prompt of the final-answer call
\* holds the query and the summary left by the last state update (the
\* sentinel when none ran) and nothing else; so two runs with the same query
\* and summary send the same prompt, whatever tools ran before.
C5_PromptFromSummary ==
    /\ pc = "planning" =>
          /\ call.prompt.template = "planning"
          /\ call.prompt.args = <<get_catalogue_prompt, query, state_summary>>
    /\ pc = "final" =>
          /\ call.prompt.template = "final_answer"
          /\ call.prompt.args = <<query, last_update>>
          /\ calls.update = 0 => last_update = SENTINEL

\* C5 witness: a planning call is in flight after a tool returned data and a
\* state update replaced the summary
C5_Witness ==
    /\ pc = "planning"
    /\ current_turn = 2
    /\ metrics.raw_response_tokens > 0
    /\ state_summary = SUMMARY_1

\* the text of {"error": "<message>"} for a message without quotes
ExpectedErrorText(message) ==
    <<"{", "\"", "error", "\"", ":", " ", "\"">> \o message \o <<"\"", "}">>

\* C6: a request for a name the tool table lacks does not raise: execution
\* returns the text of {"error": "Unknown tool: <name>"}, the state update of
\* the turn receives it, and the loop continues; a run whose every planning
\* reply names an unknown tool makes max_turns turns and then asks for the
\* final answer.
C6_UnknownToolContinues ==
    /\ RequestsUnknownName(tool_request) =>
          /\ pc \in {"exec", "updating", "raised"}
          /\ pc = "raised" => raised = "RuntimeError" /\ calls.update = current_turn
          /\ pc = "updating" =>
                LET text == ExpectedErrorText(<<"Unknown", " ", "tool", ":", " ">>
                                              \o tool_request.v[KEY_TOOL].v)
                IN  /\ filtered_response = text
                    /\ call.prompt.template = "update_state"
                    /\ call.prompt.args[4] = text
    /\ (calls.unknown = calls.planning /\ calls.planning >= 1) =>
          /\ pc \notin {"direct", "direct_retry"}
          /\ outcome # "direct"
          /\ pc \in {"final", "returned"} =>
                calls.planning = max_turns /\ calls.update = max_turns

\* C6 witness: every turn asked for does_not_exist and the run returned the
\* final answer
C6_Witness ==
    /\ pc = "returned"
    /\ outcome = "final"
    /\ max_turns = MaxTurns
    /\ calls.unknown = max_turns

\* a tool callable raised in this turn: what the run may do next
ToolRaisedState ==
    exec_event.kind = "raised" =>
        /\ raised \in {"", "RuntimeError"}
        /\ pc = "updating" =>
              /\ filtered_response = ExpectedErrorText(exec_event.text)
              /\ call.prompt.template = "update_state"
              /\ call.prompt.args[4] = ExpectedErrorText(exec_event.text)

ToolRaisedStep ==
    /\ (exec_event'.kind = "raised" /\ exec_event.kind # "raised") =>
          pc' = "updating"
    /\ (exec_event.kind = "raised" /\ pc = "updating"
          /\ pc' \notin {"updating", "raised"}) =>
          pc' = "loop" /\ current_turn' = current_turn + 1

\* C7: an exception raised by a registered tool callable is caught: execution
\* returns the text of {"error": <message>}, the state update of the turn
\* runs with that text, and the run goes on to the next turn.
C7_ToolExceptionCaught == []ToolRaisedState /\ [][ToolRaisedStep]_vars

\* C7 witness: the tool raised "boom" in turn 1 and the run stands at turn 2
C7_Witness ==
    /\ exec_event = [kind |-> "raised", text |-> <<"boom">>]
    /\ pc = "loop"
    /\ current_turn = 2

\* C8: no tool request and no tool result makes run() raise: the only
\* exception that leaves a run is the failure of a generation request.
C8_ToolOutcomeNeverFatal ==
    pc = "raised" => raised = "RuntimeError"

\* a JSON object with a tool key is a substring of the text
Recoverable(text) ==
    \E i \in 1..Len(text) : \E j \in i..Len(text) :
        /\ text[i] = "{"
        /\ text[j] = "}"
        /\ LET r == json_loads(SubSeq(text, i, j))
           IN  r.ok /\ isinstance_dict(r.val) /\ HasKey(r.val, KEY_TOOL)

UnrecoverableReplies == {r \in PlannerReplies : ~Recoverable(r)}

\* C9: a planning reply that holds no JSON object with a tool key counts as a
\* finish signal and never raises: on turn 1 the run takes the direct
\* response, after one planning call; on a later turn it leaves the loop for
\* the final answer.
C9_ParseFailureFinishes ==
    plan_reply \in UnrecoverableReplies =>
        /\ tool_request = PyNone
        /\ outcome = "none"
        /\ IF current_turn = 1
           THEN pc = "direct" /\ calls.planning = 1 /\ first_plan = "none"
           ELSE pc = "final"

\* C9 witness: prose on turn 2 sent the run to the final answer
C9_Witness ==
    /\ plan_reply = REPLY_PROSE
    /\ current_turn = 2
    /\ pc = "final"

\* what a planning reply is: a finish reply, a tool request, or a failure
ReplyClass(r) ==
    IF ~Recoverable(r) THEN "failure"
    ELSE LET parsed == json_loads(CleanReply(r))
         IN  IF /\ parsed.ok
                /\ isinstance_dict(parsed.val)
                /\ HasKey(parsed.val, KEY_TOOL)
                /\ parsed.val.v[KEY_TOOL] \in {PyNone, PyStr(<<"null">>)}
             THEN "finish"
             ELSE "request"

ReplyClasses == [r \in PlannerReplies |-> ReplyClass(r)]

\* C10: the parser has three outcomes that its result tells apart: replies
\* of different classes (finish, failure, tool request) never parse to the
\* same value.
C10_OutcomesDistinct ==
    plan_reply # <<>> =>
        \A r \in PlannerReplies :
            ReplyClasses[r] # ReplyClasses[plan_reply] =>
                parse_tool_request(r) # tool_request

\* the value json.loads gives for a text that is one JSON mapping with a tool
\* key, PyNone for any other text
ToolValue(text) ==
    LET r == json_loads(text)
    IN  IF r.ok /\ isinstance_dict(r.val) /\ HasKey(r.val, KEY_TOOL)
        THEN [found |-> TRUE, tool |-> r.val.v[KEY_TOOL]]
        ELSE [found |-> FALSE, tool |-> PyNone]

\* C11: a reply that is a JSON mapping whose tool is null or "null", with or
\* without other keys, parses to the finish signal, never to a tool request.
C11_NullToolFinishes ==
    (parser.done /\ ToolValue(parser.text).found
       /\ ToolValue(parser.text).tool \in {PyNone, PyStr(<<"null">>)}) =>
        parser.result = PyNone

\* C12: a reply that is a JSON mapping whose tool is the empty string parses
\* to the finish signal, as null and "null" do.
C12_EmptyToolFinishes ==
    (parser.done /\ ToolValue(parser.text).found
       /\ ToolValue(parser.text).tool = PyStr(<<>>)) =>
        parser.result = PyNone

\* C13: a JSON object with a tool key, put in one fenced block with prose
\* around it, parses to the same request as the bare object.
C13_WrappedParsesAsBare ==
    parser.done =>
        \A J \in ParserObjects, w \in Wrappings :
            parser.text = Wrap(J, w) => parser.result = parse_tool_request(J)

\* C14: removing the reasoning traces of a text twice gives what removing
\* them once gives.
C14_StripIdempotent ==
    parser.done =>
        StripThink(StripThink(parser.text)) = StripThink(parser.text)

\* a mapping whose indented serialization is below the threshold of line 346
SmallMapping(x) == isinstance_dict(x) /\ PyLen(json_dumps_indent(x, 0)) < 500

\* filtering applies to the request of this turn (line 318)
FilterRequested ==
    /\ config.enable_filtering
    /\ isinstance_dict(tool_request)
    /\ Truthy(DictGet(tool_request, KEY_FILTER, PyList(<<>>)))

\* C15: for a small mapping result _filter_response asks no model and
\* returns the mapping as it is, whatever fields were requested.
C15_SmallResultPassesThrough ==
    /\ pc = "filtering" => ~SmallMapping(raw_result)
    /\ exec_event.kind \in {"filtered", "fallback", "filter_raised"} =>
          ~SmallMapping(raw_result)
    /\ (pc = "updating" /\ FilterRequested /\ SmallMapping(raw_result)) =>
          /\ exec_event.kind = "returned"
          /\ filtered_response = json_dumps(raw_result)

\* C15 witness: read_file answered a small error mapping to a request with
\* a filter, and the state update received the whole mapping
C15_Witness ==
    /\ pc = "updating"
    /\ FilterRequested
    /\ raw_result = READ_ERROR
    /\ calls.filter = 0
    /\ filtered_response = json_dumps(READ_ERROR)

\* the names in the filter list of the request that are keys of the result
PresentFields ==
    LET filter_fields == DictGet(tool_request, KEY_FILTER, PyList(<<>>))
    IN  {k \in DOMAIN raw_result.v :
            \E i \in 1..Len(filter_fields.v) : filter_fields.v[i] = PyStr(k)}

\* C16: when the filter reply is no JSON, _filter_response returns a
\* non-empty part of the raw mapping (keys of the raw mapping with their raw
\* values) if a requested field is a key of it, and the raw mapping itself
\* if none is.
C16_FallbackKeepsData ==
    (pc = "updating" /\ exec_event.kind = "fallback") =>
        IF PresentFields # {}
        THEN \E K \in (SUBSET DOMAIN raw_result.v) \ {{}} :
                filtered_response = json_dumps(PyDict([k \in K |-> raw_result.v[k]]))
        ELSE filtered_response = json_dumps(raw_result)

\* C16 witness: no requested field is a key of the big result and the filter
\* reply was prose; the state update received the raw mapping
C16_Witness ==
    /\ pc = "updating"
    /\ exec_event.kind = "fallback"
    /\ raw_result = READ_BIG
    /\ PresentFields = {}
    /\ filtered_response = json_dumps(READ_BIG)

\* a generation request is in flight
Generating ==
    pc \in {"planning", "filtering", "updating", "final", "direct", "direct_retry"}

\* a generation request of the run failed: the run has raised and answered
\* nothing
GenerationFailedState ==
    raised = "RuntimeError" =>
        /\ pc = "raised"
        /\ outcome = "error"
        /\ answer = <<>>
        /\ call = NoCall
        /\ in_progress = {}

\* the failure ends a request in flight without another call, and nothing
\* follows it but a new call of run()
GenerationFailedStep ==
    /\ (raised' = "RuntimeError" /\ raised # "RuntimeError") =>
          Generating /\ call # NoCall /\ calls' = calls /\ runs' = runs
    /\ raised = "RuntimeError" => runs' = runs + 1 /\ calls' = NoCalls

\* C17: when a generation call of a run fails, in any phase, run() raises
\* the failure to its caller, returns no answer, and makes no model call and
\* no tool call after the one that failed.
C17_GenerationFailurePropagates ==
    []GenerationFailedState /\ [][GenerationFailedStep]_vars

\* C17 witness: the filter request of turn 1 failed and the run raised
C17_Witness ==
    /\ pc = "raised"
    /\ raised = "RuntimeError"
    /\ calls.filter = 1
    /\ calls.update = 0
    /\ calls.tool = 1

\* C18: every backend error of generate, blocking or streaming, reaches the
\* caller as the adapter's RuntimeError, and one generate call makes one
\* backend request.
C18_BackendErrorsAreInferenceFailures ==
    /\ adapter.pc = "raised" => adapter.error = "RuntimeError"
    /\ adapter.requests <= 1

\* C19: run(query, max_turns) with max_turns < 1 is rejected before the
\* loop: it makes no planning call, no final-answer call and no other model
\* call, and returns no answer.
C19_InvalidMaxTurnsRejected ==
    (pc # "idle" /\ max_turns < 1) =>
        /\ calls.planning = 0
        /\ calls.final = 0
        /\ calls.direct = 0
        /\ call = NoCall
        /\ pc # "returned"

\* the summary a generation request of the run carries
SummaryRead ==
    CASE pc = "planning" -> call.prompt.args[3]
      [] pc = "updating" -> call.prompt.args[2]
      [] pc = "final" -> call.prompt.args[2]
      [] OTHER -> SENTINEL

\* C20: when two run() invocations on one orchestrator interleave, every
\* summary that a planning, state-update or final-answer call of a run reads
\* is the sentinel or the output of that run's own latest state update.
C20_SummaryOwnedByRun ==
    SummaryRead \in {SENTINEL, last_update}

(***************************************************************************)
(* The metrics a caller reads after a run                                  *)
(***************************************************************************)
\* f"{x:.0f}" of the fraction r: the sign, and the magnitude rounded to the
\* nearest integer, a tie going to the even one
FormatFixed0(r) ==
    LET a == IF r.num < 0 THEN 0 - r.num ELSE r.num
        q == a \div r.den
        twice == 2 * (a % r.den)
        up == twice > r.den \/ (twice = r.den /\ q % 2 = 1)
    IN  [negative |-> r.num < 0, magnitude |-> IF up THEN q + 1 ELSE q]

\* LEAPOrchestrator.get_metrics
get_metrics ==
    [phase1_time |-> metrics.phase1_time,
     phase2_time |-> metrics.phase2_time,
     phase3_time |-> metrics.phase3_time,
     total_time |-> metrics.total_time,
     tool |-> metrics.tool_name,
     raw_tokens |-> metrics.raw_response_tokens,
     filtered_tokens |-> metrics.filtered_response_tokens,
     token_reduction |-> FormatFixed0(metrics.token_reduction)]

\* the first run on the orchestrator has returned a direct response
FirstDirectDone == runs = 1 /\ pc = "returned" /\ outcome = "direct"

\* C21: after a run on a newly constructed orchestrator that took the
\* direct-response path, get_metrics() shows no tool invocation: the tool
\* name is empty, both token estimates and the reduction are 0, and the
\* execution and state-update times are 0.
C21_DirectRunShowsNoTool ==
    FirstDirectDone =>
        /\ get_metrics.tool = PyStr(<<>>)
        /\ get_metrics.raw_tokens = 0
        /\ get_metrics.filtered_tokens = 0
        /\ get_metrics.token_reduction = [negative |-> FALSE, magnitude |-> 0]
        /\ get_metrics.phase2_time = 0
        /\ get_metrics.phase3_time = 0

\* a first run returned a direct response after its one planning call
C21_Witness ==
    /\ FirstDirectDone
    /\ calls.planning = 1
    /\ calls.direct >= 1
    /\ get_metrics.phase1_time = 1

\* what get_metrics() would show if it covered the run just returned alone:
\* one clock tick for each phase of that run
MetricsOfThisRun ==
    /\ get_metrics.phase1_time = calls.planning
    /\ get_metrics.phase2_time = calls.execution
    /\ get_metrics.phase3_time = calls.update
    /\ calls.execution = 0 =>
          /\ get_metrics.tool = PyStr(<<>>)
          /\ get_metrics.raw_tokens = 0
          /\ get_metrics.filtered_tokens = 0

\* C22: after every run of a session, get_metrics() reports the phase times
\* of that run alone, and a tool name and token figures that come from that
\* run alone (empty and zero if the run called no tool).
C22_MetricsOfLastTask == pc = "returned" => MetricsOfThisRun

\* the first planning request of the run in progress is in flight
FirstPlanning == pc = "planning" /\ calls.planning = 1

\* C23: whatever runs came before on the orchestrator, a run reaches its
\* loop at turn 1 with the summary equal to the sentinel, and the prompt of
\* its first planning call carries the sentinel, never the summary an
\* earlier run left.
C23_RunStartsFromSentinel ==
    /\ (pc = "loop" /\ calls.planning = 0) =>
          /\ current_turn = 1
          /\ state_summary = SENTINEL
    /\ FirstPlanning =>
          /\ current_turn = 1
          /\ call.prompt.args[3] = SENTINEL

\* the first planning call of a second run, made after an earlier run went
\* through a state update and so replaced the summary
C23_Witness ==
    /\ FirstPlanning
    /\ runs = 2
    /\ metrics.phase3_time >= 1
    /\ call.prompt.args[3] = SENTINEL

\* the JSON object a text opens with, as raw_decode reads it: [ok, val, pos]
LeadingObject(text) ==
    IF text # <<>> /\ text[1] = "{" THEN JSONObject(text, 2) ELSE ParseFail

\* a valid JSON object followed by further text that holds a "}" or a "]"
ObjectThenBracket(text) ==
    /\ LeadingObject(text).ok
    /\ \E i \in LeadingObject(text).pos..Len(text) : text[i] \in {"}", "]"}

\* C24: when the reply of the sub model, reasoning traces stripped, is a valid
\* JSON object followed by further text that holds a "}" or a "]", the filter
\* returns the parse of that first object and does not fall back to the
\* subset of keys.
C24_FirstObjectReturned ==
    [][\A response \in FilterReplies :
          (ObjectThenBracket(StripThink(response)) /\ FilterReturn(response)) =>
              /\ exec_event'.kind = "filtered"
              /\ filtered_response' =
                     FilteredText(LeadingObject(StripThink(response)).val)]_vars

\* the direct-response path never holds more than two generation calls
DirectCallsBounded ==
    /\ calls.direct <= 2
    /\ pc = "direct" => calls.direct = 1
    /\ pc = "direct_retry" => calls.direct = 2
    /\ (pc = "returned" /\ outcome = "direct") => calls.direct \in {1, 2}

\* what a reply to a direct-response request leads to
DirectStep ==
    \A response \in DirectReplies :
        /\ DirectReturn(response) =>
              IF PyLen(CleanResponse(response)) >= 10
              THEN /\ pc' = "returned"
                   /\ calls'.direct = 1
                   /\ answer' = CleanResponse(response)
              ELSE /\ pc' = "direct_retry"
                   /\ calls'.direct = 2
                   /\ call'.temperature = "0.8"
        /\ DirectRetryReturn(response) =>
              /\ pc' = "returned"
              /\ calls'.direct = 2
              /\ answer' = CleanResponse(response)

\* C25: the direct-response path makes exactly one generation call when the
\* first reply, reasoning traces stripped and trimmed, has at least 10
\* characters, and exactly two otherwise; the second reply is returned
\* whatever its length, and there is no third call.
C25_DirectRetriesOnce == []DirectCallsBounded /\ [][DirectStep]_vars

\* a retried direct response returned a reply of fewer than 10 characters
C25_Witness ==
    /\ pc = "returned"
    /\ outcome = "direct"
    /\ calls.direct = 2
    /\ PyLen(answer) < 10

\* json.dumps(x) if isinstance(x, dict) else str(x): lines 308 and 323
Serialized(x) == IF isinstance_dict(x) THEN json_dumps(x) ELSE str(x)

\* an execution phase in which the tool callable returned has just ended
ExecutionReturned ==
    /\ pc = "updating"
    /\ exec_event.kind \in {"returned", "filtered", "fallback"}

\* the filter was skipped in the turn: filtering is off or no filter is asked
FilterSkipped ==
    ~(config.enable_filtering
      /\ Truthy(DictGet(tool_request, KEY_FILTER, PyList(<<>>))))

\* the fraction r equals (1 - filtered / raw) * 100
IsReduction(r, raw, filtered) == r.num * raw = (raw - filtered) * 100 * r.den

\* C26: after every execution phase in which the tool callable returned, the
\* raw and the filtered estimates are the lengths of the serialized raw and
\* filtered results divided by 4 and rounded down, and when the raw estimate
\* is positive the reduction is (1 - filtered / raw) * 100; when the filter
\* was skipped the two estimates are equal and the reduction is 0.  The
\* estimate of the catalogue is the length of its text divided by 4, rounded
\* down.
C26_TokensAreQuarterOfLength ==
    /\ 4 * get_catalogue_tokens <= PyLen(get_catalogue_prompt)
    /\ PyLen(get_catalogue_prompt) < 4 * get_catalogue_tokens + 4
    /\ ExecutionReturned =>
          /\ metrics.raw_response_tokens = PyLen(Serialized(raw_result)) \div 4
          /\ metrics.filtered_response_tokens = PyLen(filtered_response) \div 4
          /\ metrics.raw_response_tokens > 0 =>
                IsReduction(metrics.token_reduction,
                            metrics.raw_response_tokens,
                            metrics.filtered_response_tokens)
          /\ FilterSkipped =>
                /\ filtered_response = Serialized(raw_result)
                /\ metrics.filtered_response_tokens = metrics.raw_response_tokens
                /\ metrics.token_reduction.num = 0

\* the sub model's reply cut a result of 600 characters down to a text whose
\* length is no multiple of 4
C26_Witness ==
    /\ ExecutionReturned
    /\ exec_event.kind = "filtered"
    /\ PyLen(filtered_response) % 4 # 0
    /\ metrics.raw_response_tokens > metrics.filtered_response_tokens
    /\ metrics.token_reduction.num > 0

\* C27: whatever runs and turns came before, metrics.total_time is 0 and
\* get_metrics() reports a total of 0: no operation assigns it, so it does
\* not grow with the phase times.
C27_TotalTimeStaysZero ==
    /\ metrics.total_time = 0
    /\ get_metrics.total_time = 0

\* a second task has returned after all three phases took time, and the
\* total reported is still 0
C27_Witness ==
    /\ pc = "returned"
    /\ runs = 2
    /\ get_metrics.phase1_time >= 2
    /\ get_metrics.phase2_time >= 1
    /\ get_metrics.phase3_time >= 1
    /\ get_metrics.total_time = 0

\* the token figures of the metrics
TokenFigures(m) ==
    <<m.raw_response_tokens, m.filtered_response_tokens, m.token_reduction>>

\* a step of the execution phase of a turn in which no tool returns: the
\* name is unknown, or the callable raises
NoResultStep ==
    /\ pc \in {"exec", "tool"}
    /\ exec_event'.kind \in {"unknown", "raised", "unhashable"}

\* lines 322-331 for a raw estimate of 0 leave the reduction as it was
ZeroRawKeepsReduction ==
    \A filtered \in {PyStr(<<>>), PyDict(EmptyMap), CALC_OK} :
        TrackFiltered([metrics EXCEPT !.raw_response_tokens = 0],
                      filtered).token_reduction = metrics.token_reduction

\* C28: in a turn whose tool name is unknown or whose tool callable raises,
\* metrics.tool_name becomes the requested name while the raw and filtered
\* estimates and the reduction keep the values of the most recent turn in
\* which a tool returned (or their initial zeros); and a turn whose raw
\* estimate is 0 leaves the reduction unchanged.
C28_FailedTurnKeepsTokenFigures ==
    /\ []ZeroRawKeepsReduction
    /\ [][/\ pc = "exec" =>
                /\ metrics'.tool_name = DictGet(tool_request, KEY_TOOL, PyNone)
                /\ TokenFigures(metrics') = TokenFigures(metrics)
          /\ NoResultStep =>
                /\ metrics'.tool_name = DictGet(tool_request, KEY_TOOL, PyNone)
                /\ TokenFigures(metrics') = TokenFigures(metrics)]_vars

\* the second turn asked for an unknown tool or its tool raised, after a first
\* turn whose tool returned: the name is the new one, the figures the old ones
C28_Witness ==
    /\ pc = "updating"
    /\ current_turn = 2
    /\ exec_event.kind \in {"unknown", "raised"}
    /\ metrics.tool_name = DictGet(tool_request, KEY_TOOL, PyNone)
    /\ metrics.raw_response_tokens > 0
    /\ metrics.filtered_response_tokens > 0

\* the adapter's bookkeeping: the model it holds and its inference metrics
Bookkeeping == <<current_model, adapter.tokens_generated>>

\* a generation completes: a blocking call returns, or a stream is consumed
\* to its end
Completes ==
    \/ adapter.pc = "backend" /\ adapter'.pc = "returned"
    \/ adapter.pc = "streaming" /\ adapter'.pc = "exhausted"

\* C29: the adapter's current_model is None or the model of the most recent
\* generation that completed, and current_model and the inference metrics
\* change only in the step in which a generation completes: a blocking call
\* that fails, a stream that fails or is abandoned, and warmup leave them as
\* they were.
C29_BookkeepingOnCompletionOnly ==
    /\ [](current_model = adapter.completed)
    /\ [][Bookkeeping' # Bookkeeping => Completes]_vars

\* the model calls the run in progress has made
ModelCalls ==
    calls.planning + calls.filter + calls.update + calls.final + calls.direct

\* what the filter needs to call the sub model: filtering is on, a filter is
\* asked for, the tool returned a mapping, and the mapping, serialized with
\* indent=2, has 500 characters or more
FilterConditions ==
    /\ config.enable_filtering
    /\ ~FilterSkipped
    /\ isinstance_dict(raw_result)
    /\ PyLen(json_dumps_indent(raw_result, 0)) >= 500

\* C30: the sub model is called by the result filter only, at most once per
\* turn and only when filtering is enabled, the filter list is non-empty and
\* the tool returned a mapping of 500 characters or more; in every other turn
\* in which a tool returned, its raw result is passed on without a model
\* call; every other model call uses the main model; and a run with
\* max_turns = N makes at most 3N + 1 model calls.
C30_SubModelOnlyFilters ==
    /\ call.model = sub_model <=> pc = "filtering"
    /\ pc \in {"planning", "updating", "final", "direct", "direct_retry"} =>
          call.model = main_model
    /\ pc = "filtering" => FilterConditions
    /\ calls.filter <= calls.tool
    /\ (Running /\ runs >= 1) => calls.tool <= current_turn
    /\ ExecutionReturned =>
          IF FilterConditions
          THEN exec_event.kind \in {"filtered", "fallback"}
          ELSE /\ exec_event.kind = "returned"
               /\ filtered_response = Serialized(raw_result)
    /\ runs >= 1 => ModelCalls <= 3 * max_turns + 1

\* a run of max_turns = 2 has made all of its 7 model calls, two of them to
\* the sub model
C30_Witness ==
    /\ pc = "returned"
    /\ max_turns = 2
    /\ calls.filter = 2
    /\ ModelCalls = 3 * max_turns + 1

====
